---- MODULE Spec2Model ----
(***************************************************************************)
(* Verification model of the message-to-action core of omni_bot_sdk:       *)
(*   - ProcessorService   (services/core/processor_service.py)             *)
(*   - AsyncPluginRunner  (services/core/async_plugin_runner.py)           *)
(*   - PluginManager      (plugins/plugin_manager.py)                      *)
(*   - TokenBucket / RPAController (rpa/controller.py)                     *)
(*   - RPAService         (services/core/rpa_service.py)                   *)
(* Each component has its own group of variables and its own               *)
(* specification; a specification leaves the other groups unchanged.       *)
(***************************************************************************)
EXTENDS Integers, Sequences, FiniteSets, TLC

VARIABLES
    \* ---- ProcessorService / AsyncPluginRunner (specification Spec) ----
    message_queue,      \* the shared intake queue (queue.Queue, FIFO)
    next_seq,           \* number of events put on the intake queue so far
    session_queues,     \* ProcessorService.session_queues: session id -> FIFO
    active_sessions,    \* ProcessorService.active_sessions: session id -> bool
    proc_is_running,    \* ProcessorService.is_running
    dispatcher,         \* the _process_loop thread: [pc, msg]
    pool_queue,         \* ThreadPoolExecutor work queue (session ids)
    pool_shutdown,      \* ThreadPoolExecutor shut down flag
    workers,            \* pool worker threads: [pc, sid, msg]
    runner_is_running,  \* AsyncPluginRunner.is_running
    loop_running,       \* the runner's event loop is running
    submitted,          \* events handed to the loop, in call order
    stop_pc,            \* position of the thread calling ProcessorService.stop()
    stops,              \* number of stop() calls so far
    \* ---- the runner's event loop (specification SpecBridge) ----
    evals,              \* state of the evaluations handed to the loop, by
                        \* position in submitted; none for one not started
    proc_errors,        \* the events whose _process_message logged an error
    runner,             \* AsyncPluginRunner: the number of its threads that are
                        \* alive, and of the start() and stop() calls made,
                        \* and whether a submit_task call found it not running
    \* ---- PluginManager (specification SpecChain) ----
    plugins,            \* PluginManager.plugins, the ordered plugin list
    chain,              \* one process_message call: [pc, idx]
    excute_context,     \* its PluginExcuteContext: responses, errors, should_stop
    invoked,            \* the handle_message calls of this evaluation, in order
    started,            \* the plugin list when this evaluation started, and
                        \* the complete lists there were at that moment
    reload,             \* the last load: what it discovered, and the state of
                        \* a reload_all_plugins call: [pc, discovered, k, old, n]
    \* ---- the monotonic clock, in seconds ----
    now,
    \* ---- one TokenBucket (specification SpecBucket) ----
    bucket,             \* [made, _rate, _capacity, _tokens, _last_update]
    last_consume,       \* the last consume call: amount, tokens available, result
    \* ---- RPAService / RPAController (specifications SpecExec, SpecRpa) ----
    rpa_is_running,     \* RPAService.is_running
    rpa_thread,         \* RPAService.thread: 0 for None, else the thread's id
    rthreads,           \* the RPAWorkerThread threads ever started
    task_queue,         \* the shared action queue (queue.Queue, FIFO)
    next_action,        \* number of actions put on the action queue so far
    short_term_limiter, \* RPAController.short_term_limiter
    long_term_limiter,  \* RPAController.long_term_limiter
    rpa_stop,           \* the thread calling RPAService.stop(): [pc, deadline]
    last_execution,     \* the execute_action call that returned last
    executed,           \* per action id, the number of execute_action calls
    handled,            \* ids of the actions passed to handler.execute
    passes,             \* number of _can_send_message calls that returned True
    \* ---- the producers of the action queue (specification SpecBatch) ----
    rpa_queue_lock,     \* ProcessorService.rpa_queue_lock: its holder, or NoHolder
    producers,          \* the threads that put actions on the queue
    rpa_task_queue,     \* every put on the action queue, in the order of the puts
    \* ---- DatDecryptService callbacks (specification SpecDecrypt) ----
    _recent_decrypts,   \* deque(maxlen=20) of the decrypted files: [fname, path]
    _decrypt_callbacks, \* dict filename -> list of (callback, timer)
    registrations,      \* every register_decrypt_callback call with its timer:
                        \* [filename, callback, timer]
    callback_calls,     \* every invocation of a callback: [filename, callback, path]
    \* ---- Bot lifecycle (specification SpecBot) ----
    bot,                \* Bot: is_running, _status, whether the attribute mcp_app
                        \* is set, where the main thread and teardown() are
    component_calls     \* every start() and stop() call made on a component

dvars == << message_queue, next_seq, session_queues, active_sessions,
            proc_is_running, dispatcher, pool_queue, pool_shutdown, workers,
            runner_is_running, loop_running, submitted, stop_pc, stops >>

cvars == << plugins, chain, excute_context, invoked, started, reload >>

bvars == << bucket, last_consume >>

rvars == << rpa_is_running, rpa_thread, rthreads, task_queue, next_action,
            short_term_limiter, long_term_limiter, rpa_stop,
            last_execution, executed, handled, passes >>

evars == << evals, proc_errors, runner >>

qvars == << rpa_queue_lock, producers, rpa_task_queue >>

kvars == << _recent_decrypts, _decrypt_callbacks, registrations,
            callback_calls >>

ovars == << bot, component_calls >>

vars == << dvars, evars, cvars, now, bvars, rvars, qvars, kvars, ovars >>

\* what the actions of one component leave unchanged
notDE == << cvars, now, bvars, rvars, qvars, kvars, ovars >>
notD == << evars, notDE >>
notC == << dvars, evars, now, bvars, rvars, qvars, kvars, ovars >>
notB == << dvars, evars, cvars, rvars, qvars, kvars, ovars >>
notR == << dvars, evars, cvars, bvars, qvars, kvars, ovars >>
notQ == << dvars, evars, cvars, now, bvars, rvars, kvars, ovars >>
notK == << dvars, evars, cvars, now, bvars, rvars, qvars, ovars >>
notO == << dvars, evars, cvars, now, bvars, rvars, qvars, kvars >>

----------------------------------------------------------------------------
(* Bounds of the model *)

\* number of events ever put on the intake queue
MaxEvents == 3
\* ThreadPoolExecutor(max_workers = cpu_count() - 1)
PoolSize == 2
\* number of ProcessorService.stop() calls explored
MaxStops == 1
\* number of plugins one discovery loads
MaxPlugins == 3
\* number of reload_all_plugins() calls explored
MaxReloads == 1
\* number of AsyncPluginRunner.start() and stop() calls explored
MaxRunnerCalls == 4
\* the clock stops at MaxTime seconds
MaxTime == 13
\* token counts are kept in units of 1/TokenScale token
TokenScale == 12
\* largest amount passed to consume, in tokens
MaxAmount == 2
\* number of actions ever put on the action queue
MaxActions == 3
\* number of RPAWorkerThread threads ever started (RPAService.start calls)
MaxThreads == 2
\* number of responses one chain evaluation returns
MaxResponses == 2
\* number of actions in one list handed to add_rpa_actions
MaxBatch == 2
\* number of actions the MQTT service puts on the queue
MaxMqtt == 1
\* number of register_decrypt_callback calls explored
MaxRegistrations == 3
\* number of successful decryptions explored
MaxDecrypts == 2
\* number of teardown() calls explored
MaxTeardowns == 2

(* Program constants *)

\* execute_action: max_wait_seconds = 10
max_wait_seconds == 10
\* execute_action: wait_interval = 1
wait_interval == 1
\* RPAService.stop: self.thread.join(timeout=5.0)
join_timeout == 5
\* _execute_loop: self.task_queue.get(block=True, timeout=1.0)
get_timeout == 1
\* DatDecryptService: self._recent_decrypts = deque(maxlen=20)
recent_maxlen == 20

----------------------------------------------------------------------------
(* ProcessorService: raw records and session ids *)

\* A raw record is (table_name, msg_with_db); table_name is kept as the pair
\* <<prefix, rest>>, msg_with_db[4] is the sender id and msg_with_db[2] the type.
MsgInputs ==
    { [table |-> <<"Msg_", "g1">>, sender |-> "u1", type |-> "known"],
      [table |-> <<"Msg_", "g1">>, sender |-> "u2", type |-> "unknown"],
      [table |-> <<"Chat", "x">>,  sender |-> "u1", type |-> "known"],
      [table |-> <<"Msg_", "g1">>, sender |-> "u3", type |-> "malformed"] }

NoMsg == [seq |-> 0, table |-> <<"", "">>, sender |-> "", type |-> ""]

\* _get_session_id: the table name without "Msg_" for a table starting with
\* "Msg_", otherwise "private_" + sender id.
_get_session_id(message) ==
    IF message.table[1] = "Msg_"
    THEN << "", message.table[2] >>
    ELSE << "private_", message.sender >>

SessionIds == { _get_session_id(m) : m \in MsgInputs }

NoSession == << "", "" >>

\* MessageFactoryService.create_message: None for a type without a factory;
\* a record with too few fields raises at msg_with_db[17], a factory may raise.
create_message(message) ==
    CASE message.type = "known" -> "message"
      [] message.type = "malformed" -> "raise"
      [] OTHER -> "None"

Workers == 1 .. PoolSize

\* caught: this run of _process_session_messages has logged an error
IdleWorker == [pc |-> "idle", sid |-> NoSession, msg |-> NoMsg, caught |-> FALSE]

----------------------------------------------------------------------------
(* Initial state: the services are constructed, nothing is started *)

InitDispatcher ==
    /\ message_queue = << >>
    /\ next_seq = 0
    /\ session_queues = [s \in {} |-> << >>]
    /\ active_sessions = [s \in SessionIds |-> FALSE]
    /\ proc_is_running = FALSE
    /\ dispatcher = [pc |-> "none", msg |-> NoMsg]
    /\ pool_queue = << >>
    /\ pool_shutdown = FALSE
    /\ workers = [w \in Workers |-> IdleWorker]
    /\ runner_is_running = FALSE
    /\ loop_running = FALSE
    /\ submitted = << >>
    /\ stop_pc = "idle"
    /\ stops = 0
    /\ evals = << >>
    /\ proc_errors = {}
    /\ runner = [threads |-> 0, calls |-> 0, refused |-> FALSE]

----------------------------------------------------------------------------
(* The producer (MessageService) puts raw records on the intake queue *)

Submit(m) ==
    /\ UNCHANGED notD
    /\ next_seq < MaxEvents
    /\ next_seq' = next_seq + 1
    /\ message_queue' = Append(message_queue,
            [seq |-> next_seq + 1, table |-> m.table, sender |-> m.sender,
             type |-> m.type])
    /\ UNCHANGED << session_queues, active_sessions, proc_is_running,
                    dispatcher, pool_queue, pool_shutdown, workers,
                    runner_is_running, loop_running, submitted, stop_pc, stops >>

\* the producer goes on for ever: further records keep arriving, at most
\* MaxEvents of them waiting at a time; the arrival number stays at MaxEvents
SubmitMore(m) ==
    /\ UNCHANGED notD
    /\ next_seq = MaxEvents
    /\ message_queue = << >>
    /\ LET s == _get_session_id(m)
       IN  s \in DOMAIN session_queues => Len(session_queues[s]) < MaxEvents
    /\ message_queue' = Append(message_queue,
            [seq |-> MaxEvents, table |-> m.table, sender |-> m.sender,
             type |-> m.type])
    /\ UNCHANGED << next_seq, session_queues, active_sessions, proc_is_running,
                    dispatcher, pool_queue, pool_shutdown, workers,
                    runner_is_running, loop_running, submitted, stop_pc, stops >>

----------------------------------------------------------------------------
(* ProcessorService.start / AsyncPluginRunner.start *)

\* AsyncPluginRunner.start makes a new thread with a new event loop: what
\* was handed to the old loop and has not finished stays there
NewLoop(ev, n) ==
    [i \in 1 .. n |-> IF i <= Len(ev) /\ ev[i] \in {"done", "caught"}
                      THEN ev[i] ELSE "lost"]

\* a start() that makes a thread whatever is_running says
StartNoCheck(is_running, threads) == threads + 1

\* AsyncPluginRunner.start: if self.is_running: return; otherwise one new
\* thread runs _run_loop.  The number of live threads after the call.
threads_after_start(is_running, threads) ==
    IF is_running THEN threads ELSE threads + 1

\* AsyncPluginRunner.stop: loop.stop is scheduled on the loop and
\* thread.join() returns when _run_loop has returned and the thread ended
threads_after_stop(threads) == threads - 1

Start ==
    /\ UNCHANGED << notDE, proc_errors >>
    /\ stop_pc = "idle"
    /\ ~proc_is_running
    /\ proc_is_running' = TRUE
    /\ runner' = [runner EXCEPT
                     !.threads = threads_after_start(runner_is_running, @)]
    /\ IF runner_is_running
       THEN UNCHANGED << runner_is_running, loop_running, evals >>
       ELSE /\ runner_is_running' = TRUE
            /\ loop_running' = TRUE
            /\ evals' = NewLoop(evals, Len(submitted))
    /\ dispatcher' = [pc |-> "loop", msg |-> NoMsg]
    /\ UNCHANGED << message_queue, next_seq, session_queues, active_sessions,
                    pool_queue, pool_shutdown, workers, submitted, stop_pc,
                    stops >>

----------------------------------------------------------------------------
(* ProcessorService._process_loop, one step per blocking point *)

\* while self.is_running:
DispLoop ==
    /\ UNCHANGED notD
    /\ dispatcher.pc = "loop"
    /\ dispatcher' = [dispatcher EXCEPT !.pc =
                        IF proc_is_running THEN "get" ELSE "exited"]
    /\ UNCHANGED << message_queue, next_seq, session_queues, active_sessions,
                    proc_is_running, pool_queue, pool_shutdown, workers,
                    runner_is_running, loop_running, submitted, stop_pc, stops >>

\* message = self.message_queue.get(timeout=1)
DispGet ==
    /\ UNCHANGED notD
    /\ dispatcher.pc = "get"
    /\ IF message_queue # << >>
       THEN /\ dispatcher' = [pc |-> "put", msg |-> Head(message_queue)]
            /\ message_queue' = Tail(message_queue)
       ELSE \* queue.Empty: continue
            /\ dispatcher' = [dispatcher EXCEPT !.pc = "loop"]
            /\ UNCHANGED message_queue
    /\ UNCHANGED << next_seq, session_queues, active_sessions,
                    proc_is_running, pool_queue, pool_shutdown, workers,
                    runner_is_running, loop_running, submitted, stop_pc, stops >>

\* _ensure_session_queue: create the queue on the first event of a session.
_ensure_session_queue(queues, session_id) ==
    IF session_id \in DOMAIN queues
    THEN queues
    ELSE [s \in DOMAIN queues \cup {session_id} |->
            IF s = session_id THEN << >> ELSE queues[s]]

\* session_id = _get_session_id(message); _ensure_session_queue; put
DispPut ==
    /\ UNCHANGED notD
    /\ dispatcher.pc = "put"
    /\ LET session_id == _get_session_id(dispatcher.msg)
           queues == _ensure_session_queue(session_queues, session_id)
       IN  session_queues' =
              [queues EXCEPT ![session_id] = Append(@, dispatcher.msg)]
    /\ dispatcher' = [dispatcher EXCEPT !.pc = "schedule"]
    /\ UNCHANGED << message_queue, next_seq, active_sessions,
                    proc_is_running, pool_queue, pool_shutdown, workers,
                    runner_is_running, loop_running, submitted, stop_pc, stops >>

\* _schedule_session_processing, under active_sessions_lock.  submit() on a
\* pool that was shut down raises RuntimeError after the flag was set; the
\* loop's except clause logs it and continues.
ScheduleNoCheck(session_id) ==
    /\ active_sessions' = [active_sessions EXCEPT ![session_id] = TRUE]
    /\ IF pool_shutdown
       THEN UNCHANGED pool_queue
       ELSE pool_queue' = Append(pool_queue, session_id)

_schedule_session_processing(session_id) ==
    IF ~active_sessions[session_id]
    THEN /\ active_sessions' = [active_sessions EXCEPT ![session_id] = TRUE]
         /\ IF pool_shutdown
            THEN UNCHANGED pool_queue
            ELSE pool_queue' = Append(pool_queue, session_id)
    ELSE UNCHANGED << active_sessions, pool_queue >>

DispSchedule ==
    /\ UNCHANGED notD
    /\ dispatcher.pc = "schedule"
    /\ _schedule_session_processing(_get_session_id(dispatcher.msg))
    /\ dispatcher' = [pc |-> "loop", msg |-> NoMsg]
    /\ UNCHANGED << message_queue, next_seq, session_queues,
                    proc_is_running, pool_shutdown, workers,
                    runner_is_running, loop_running, submitted, stop_pc, stops >>

----------------------------------------------------------------------------
(* A pool worker running ProcessorService._process_session_messages *)

\* a pool that runs one work item at a time
PoolSerial(ws, w) == \A v \in Workers : ws[v].pc = "idle"

\* ThreadPoolExecutor(max_workers=thread_pool_size): a work item is taken by
\* any pool thread that runs no work item
idle_thread(ws, w) == ws[w].pc = "idle"

\* an idle pool thread takes the oldest work item
WorkerStart(w) ==
    /\ UNCHANGED notD
    /\ idle_thread(workers, w)
    /\ pool_queue # << >>
    /\ workers' = [workers EXCEPT ![w] =
                      [IdleWorker EXCEPT !.pc = "loop",
                                         !.sid = Head(pool_queue)]]
    /\ pool_queue' = Tail(pool_queue)
    /\ UNCHANGED << message_queue, next_seq, session_queues, active_sessions,
                    proc_is_running, dispatcher, pool_shutdown,
                    runner_is_running, loop_running, submitted, stop_pc, stops >>

\* while self.is_running: (leaving the loop here does not clear the flag)
WorkerLoop(w) ==
    /\ UNCHANGED notD
    /\ workers[w].pc = "loop"
    /\ workers' = [workers EXCEPT ![w] =
                      IF proc_is_running THEN [@ EXCEPT !.pc = "get"]
                      ELSE IdleWorker]
    /\ UNCHANGED << message_queue, next_seq, session_queues, active_sessions,
                    proc_is_running, dispatcher, pool_queue, pool_shutdown,
                    runner_is_running, loop_running, submitted, stop_pc, stops >>

\* queue.get(timeout=1) takes the oldest event of the session queue
QueueGetLast(q) == << q[Len(q)], SubSeq(q, 1, Len(q) - 1) >>

QueueGet(q) == << Head(q), Tail(q) >>

\* message = queue.get(timeout=1); queue.Empty when the queue stayed empty
WorkerGet(w) ==
    /\ UNCHANGED notD
    /\ workers[w].pc = "get"
    /\ LET sid == workers[w].sid
       IN  IF session_queues[sid] # << >>
           THEN /\ workers' = [workers EXCEPT ![w].pc = "process",
                                  ![w].msg = QueueGet(session_queues[sid])[1]]
                /\ session_queues' = [session_queues EXCEPT ![sid] =
                                         QueueGet(session_queues[sid])[2]]
           ELSE /\ workers' = [workers EXCEPT ![w].pc = "empty"]
                /\ UNCHANGED session_queues
    /\ UNCHANGED << message_queue, next_seq, active_sessions,
                    proc_is_running, dispatcher, pool_queue, pool_shutdown,
                    runner_is_running, loop_running, submitted, stop_pc, stops >>

\* a submit_task that schedules the coroutine whatever is_running says
SubmitNoCheck(message) == submitted' = Append(submitted, message)

\* AsyncPluginRunner.submit_task: run_coroutine_threadsafe appends the
\* evaluation to the loop's callbacks, unless the runner is not running.
submit_task(message) ==
    IF runner_is_running
    THEN submitted' = Append(submitted, message)
    ELSE UNCHANGED submitted

\* an exception leaving _process_message would reach the except Exception of
\* _process_session_messages, which marks the session inactive and breaks
ProcessMessagePropagates(wrk, created) ==
    IF created = "raise"
    THEN [wrk EXCEPT !.pc = "empty", !.msg = NoMsg, !.caught = TRUE]
    ELSE [wrk EXCEPT !.pc = "loop", !.msg = NoMsg]

\* _process_message: try: ... except Exception: logger.error(...); it returns
\* normally in every case and the worker goes on with queue.task_done()
_process_message(wrk, created) ==
    [wrk EXCEPT !.pc = "loop", !.msg = NoMsg,
                !.caught = @ \/ created = "raise"]

\* without the test, whatever the factory returned is handed to the runner
SubmitUnlessRaised(created) == created # "raise"

\* if message_obj: a message object is truthy, None is not; a raise never
\* reaches the test
message_obj(created) == created = "message"

\* _process_message(message); queue.task_done()
WorkerProcess(w) ==
    /\ UNCHANGED << evals, runner, notDE >>
    /\ workers[w].pc = "process"
    /\ LET created == create_message(workers[w].msg)
       IN  /\ IF message_obj(created)
              THEN submit_task(workers[w].msg)
              ELSE UNCHANGED submitted
           /\ proc_errors' = IF created = "raise"
                             THEN proc_errors \cup {workers[w].msg}
                             ELSE proc_errors
           /\ workers' = [workers EXCEPT
                             ![w] = _process_message(workers[w], created)]
    /\ UNCHANGED << message_queue, next_seq, session_queues, active_sessions,
                    proc_is_running, dispatcher, pool_queue, pool_shutdown,
                    runner_is_running, loop_running, stop_pc, stops >>

\* except Empty: with active_sessions_lock: active_sessions[sid] = False; break
WorkerMarkInactive(w) ==
    /\ UNCHANGED notD
    /\ workers[w].pc = "empty"
    /\ active_sessions' = [active_sessions EXCEPT ![workers[w].sid] = FALSE]
    /\ workers' = [workers EXCEPT ![w] = IdleWorker]
    /\ UNCHANGED << message_queue, next_seq, session_queues,
                    proc_is_running, dispatcher, pool_queue, pool_shutdown,
                    runner_is_running, loop_running, submitted, stop_pc, stops >>

----------------------------------------------------------------------------
(* ProcessorService.stop, one step per blocking point *)

\* self.is_running = False
StopBegin ==
    /\ UNCHANGED notD
    /\ stop_pc = "idle"
    /\ proc_is_running
    /\ stops < MaxStops
    /\ proc_is_running' = FALSE
    /\ stops' = stops + 1
    /\ stop_pc' = "runner"
    /\ UNCHANGED << message_queue, next_seq, session_queues, active_sessions,
                    dispatcher, pool_queue, pool_shutdown, workers,
                    runner_is_running, loop_running, submitted >>

\* AsyncPluginRunner.stop: loop.call_soon_threadsafe(loop.stop); thread.join()
\* The loop stops when the callback it is running has returned.
StopRunnerLoop ==
    /\ UNCHANGED << evals, proc_errors, notDE >>
    /\ stop_pc = "runner"
    /\ \A i \in 1 .. Len(evals) : evals[i] # "running"
    /\ IF runner_is_running
       THEN /\ loop_running' = FALSE
            /\ runner' = [runner EXCEPT !.threads = threads_after_stop(@)]
            /\ stop_pc' = "runner_flag"
       ELSE UNCHANGED << loop_running, runner >> /\ stop_pc' = "join"
    /\ UNCHANGED << message_queue, next_seq, session_queues, active_sessions,
                    proc_is_running, dispatcher, pool_queue, pool_shutdown,
                    workers, runner_is_running, submitted, stops >>

\* AsyncPluginRunner.stop: self.is_running = False
StopRunnerFlag ==
    /\ UNCHANGED notD
    /\ stop_pc = "runner_flag"
    /\ runner_is_running' = FALSE
    /\ stop_pc' = "join"
    /\ UNCHANGED << message_queue, next_seq, session_queues, active_sessions,
                    proc_is_running, dispatcher, pool_queue, pool_shutdown,
                    workers, loop_running, submitted, stops >>

\* self.thread.join(), then thread_pool.shutdown(wait=True) sets the flag
StopJoin ==
    /\ UNCHANGED notD
    /\ stop_pc = "join"
    /\ dispatcher.pc = "exited"
    /\ pool_shutdown' = TRUE
    /\ stop_pc' = "shutdown"
    /\ UNCHANGED << message_queue, next_seq, session_queues, active_sessions,
                    proc_is_running, dispatcher, pool_queue, workers,
                    runner_is_running, loop_running, submitted, stops >>

\* shutdown(wait=True) returns once the queued work items ran and the workers ended
StopShutdown ==
    /\ UNCHANGED notD
    /\ stop_pc = "shutdown"
    /\ pool_queue = << >>
    /\ \A w \in Workers : workers[w].pc = "idle"
    /\ stop_pc' = "idle"
    /\ UNCHANGED << message_queue, next_seq, session_queues, active_sessions,
                    proc_is_running, dispatcher, pool_queue, pool_shutdown,
                    workers, runner_is_running, loop_running, submitted, stops >>

----------------------------------------------------------------------------

NextDispatcher ==
    \/ \E m \in MsgInputs : Submit(m)
    \/ Start
    \/ DispLoop
    \/ DispGet
    \/ DispPut
    \/ DispSchedule
    \/ \E w \in Workers : WorkerStart(w)
    \/ \E w \in Workers : WorkerLoop(w)
    \/ \E w \in Workers : WorkerGet(w)
    \/ \E w \in Workers : WorkerProcess(w)
    \/ \E w \in Workers : WorkerMarkInactive(w)
    \/ StopBegin
    \/ StopRunnerLoop
    \/ StopRunnerFlag
    \/ StopJoin
    \/ StopShutdown

----------------------------------------------------------------------------
(* The dispatcher with a pool of one thread (cpu_count() - 1 on a machine   *)
(* with two cores), two sessions, and a producer that never stops           *)

\* the steps of the dispatcher thread
DispatcherStep == DispLoop \/ DispGet \/ DispPut \/ DispSchedule

\* the steps of pool thread w
WorkerStep(w) ==
    \/ WorkerStart(w)
    \/ WorkerLoop(w)
    \/ WorkerGet(w)
    \/ WorkerProcess(w)
    \/ WorkerMarkInactive(w)

\* records of two sessions; for those of the room the factory returns None
StarveInputs ==
    { m \in MsgInputs : m.type = "unknown" \/ m.table[1] # "Msg_" }

NextStarve ==
    \/ \E m \in StarveInputs : Submit(m)
    \/ \E m \in { x \in StarveInputs : create_message(x) = "None" } :
          SubmitMore(m)
    \/ Start
    \/ DispatcherStep
    \/ WorkerStep(1)

----------------------------------------------------------------------------
(* The runner's event loop: _process_and_handle_result coroutines *)

Running == { i \in 1 .. Len(evals) : evals[i] = "running" }

\* the loop takes the oldest evaluation not started yet; it runs one
\* coroutine at a time
EvalStart ==
    /\ UNCHANGED << dvars, proc_errors, runner, notDE >>
    /\ loop_running
    /\ Running = {}
    /\ Len(evals) < Len(submitted)
    /\ evals' = Append(evals, "running")

\* the running evaluation is suspended at an await of a plugin
EvalAwait ==
    /\ UNCHANGED << dvars, proc_errors, runner, notDE >>
    /\ \E i \in Running : evals' = [evals EXCEPT ![i] = "suspended"]

\* what a suspended evaluation waited for is there: the loop resumes it
EvalResume(i) ==
    /\ UNCHANGED << dvars, proc_errors, runner, notDE >>
    /\ loop_running
    /\ Running = {}
    /\ i \in 1 .. Len(evals)
    /\ evals[i] = "suspended"
    /\ evals' = [evals EXCEPT ![i] = "running"]

\* how the body of the coroutine ends: process_message returned and the
\* actions were handed to add_rpa_actions, or one of the two raised
EvalOutcomes == {"return", "raise"}

\* a coroutine whose exception ends the loop that runs it
ResultPropagates(outcome) ==
    [state |-> IF outcome = "raise" THEN "failed" ELSE "done",
     loop |-> outcome # "raise"]

\* _process_and_handle_result: try: ... except Exception: logger.error(...);
\* the coroutine ends normally in both cases and the loop goes on
_process_and_handle_result(outcome) ==
    [state |-> IF outcome = "raise" THEN "caught" ELSE "done", loop |-> TRUE]

\* the running evaluation ends
EvalFinish(outcome) ==
    /\ UNCHANGED << proc_errors, runner, notDE >>
    /\ \E i \in Running :
          LET r == _process_and_handle_result(outcome)
          IN  /\ evals' = [evals EXCEPT ![i] = r.state]
              /\ loop_running' = (loop_running /\ r.loop)
    /\ UNCHANGED << message_queue, next_seq, session_queues, active_sessions,
                    proc_is_running, dispatcher, pool_queue, pool_shutdown,
                    workers, runner_is_running, submitted, stop_pc, stops >>

NextBridge ==
    \/ NextDispatcher
    \/ EvalStart
    \/ EvalAwait
    \/ \E i \in 1 .. MaxEvents : EvalResume(i)
    \/ EvalFinish("return")

----------------------------------------------------------------------------
(* AsyncPluginRunner driven through its own interface: any sequence of    *)
(* start() and stop() calls, with tasks submitted in between              *)

\* start()
RunnerStart ==
    /\ UNCHANGED << proc_errors, notDE >>
    /\ runner.calls < MaxRunnerCalls
    /\ runner' = [runner EXCEPT
                     !.threads = threads_after_start(runner_is_running, @),
                     !.calls = @ + 1]
    /\ IF runner_is_running
       THEN UNCHANGED << runner_is_running, loop_running, evals >>
       ELSE /\ runner_is_running' = TRUE
            /\ loop_running' = TRUE
            /\ evals' = NewLoop(evals, Len(submitted))
    /\ UNCHANGED << message_queue, next_seq, session_queues, active_sessions,
                    proc_is_running, dispatcher, pool_queue, pool_shutdown,
                    workers, submitted, stop_pc, stops >>

\* stop(): it returns when the loop has finished the callback it was running
RunnerStop ==
    /\ UNCHANGED << evals, proc_errors, notDE >>
    /\ runner.calls < MaxRunnerCalls
    /\ Running = {}
    /\ runner' = [runner EXCEPT
                     !.threads = IF runner_is_running
                                 THEN threads_after_stop(@) ELSE @,
                     !.calls = @ + 1]
    /\ runner_is_running' = FALSE
    /\ loop_running' = FALSE
    /\ UNCHANGED << message_queue, next_seq, session_queues, active_sessions,
                    proc_is_running, dispatcher, pool_queue, pool_shutdown,
                    workers, submitted, stop_pc, stops >>

\* submit_task(message, context), from any thread
RunnerSubmit(m) ==
    /\ UNCHANGED << evals, proc_errors, notDE >>
    /\ Len(submitted) < MaxEvents
    /\ runner' = [runner EXCEPT !.refused = @ \/ ~runner_is_running]
    /\ submit_task([seq |-> Len(submitted) + 1, table |-> m.table,
                    sender |-> m.sender, type |-> m.type])
    /\ UNCHANGED << message_queue, next_seq, session_queues, active_sessions,
                    proc_is_running, dispatcher, pool_queue, pool_shutdown,
                    workers, runner_is_running, loop_running, stop_pc, stops >>

NextRunner ==
    \/ RunnerStart
    \/ RunnerStop
    \/ \E m \in { x \in MsgInputs : create_message(x) = "message" } :
          RunnerSubmit(m)
    \/ EvalStart
    \/ EvalAwait
    \/ \E i \in 1 .. MaxEvents : EvalResume(i)
    \/ \E outcome \in EvalOutcomes : EvalFinish(outcome)

EvalDone(i) == i <= Len(evals) /\ evals[i] = "done"

\* C25: at most one thread of the runner is alive, an evaluation runs only
\* while that thread runs its loop, and at most one evaluation, of whatever
\* session, is executing at any instant.
C25_OneBridgeThread ==
    /\ runner.threads <= 1
    /\ loop_running => runner.threads = 1
    /\ Cardinality(Running) <= 1
    /\ Running # {} => loop_running

\* after start, stop and start again an evaluation is executing, while one
\* of another session is suspended and one was left on the stopped loop
C25_Witness ==
    /\ runner.calls >= 3
    /\ \E i, j, k \in 1 .. Len(evals) :
          /\ evals[i] = "running" /\ evals[j] = "suspended" /\ evals[k] = "lost"
          /\ _get_session_id(submitted[i]) # _get_session_id(submitted[j])

\* C31: once stop() of the runner has returned (is_running is False) no
\* evaluation is executing and none starts, resumes or finishes until the
\* next start(): what was outstanding stays where it was; and a submit_task
\* call made while the runner is not running schedules nothing.
C31_StoppedRunnerIdle ==
    /\ [](~runner_is_running => (Running = {} /\ ~loop_running))
    /\ [][~runner_is_running =>
             /\ submitted' = submitted
             /\ runner_is_running' \/ evals' = evals]_vars

\* stop() has returned with one evaluation suspended at an await and one
\* task not yet started, and a submit_task call was refused
C31_Witness ==
    /\ ~runner_is_running
    /\ runner.refused
    /\ runner.calls >= 2
    /\ \E i \in 1 .. Len(evals) : evals[i] = "suspended"
    /\ Len(evals) < Len(submitted)

\* C32: an exception raised while an event is evaluated or its actions are
\* forwarded is caught in the coroutine: the step leaves the loop and its
\* thread running and submits nothing again, the evaluation is never run
\* again, and while the runner is running its loop is there to evaluate
\* what is submitted.
C32_EvalErrorCaught ==
    /\ [](runner_is_running => loop_running)
    /\ [][\A i \in 1 .. Len(evals) :
             /\ (evals[i] = "running" /\ evals'[i] \notin {"running", "suspended", "done"})
                    => /\ evals'[i] = "caught"
                       /\ loop_running' /\ runner' = runner
                       /\ submitted' = submitted
                       /\ Len(evals') = Len(evals)
             /\ evals[i] = "caught" => evals'[i] = "caught"]_vars

\* an evaluation is executing after the evaluation of an earlier task raised
C32_Witness ==
    \E i, j \in 1 .. Len(evals) :
        i < j /\ evals[i] = "caught" /\ evals[j] = "running"

\* C12: a worker holds a popped event only when the evaluations of the
\* earlier events of that session are complete, and of two evaluations of
\* one session the later one starts only when the earlier one is complete.
C12_SerialPerSession ==
    /\ \A w \in Workers :
          workers[w].pc = "process" =>
              \A i \in 1 .. Len(submitted) :
                  _get_session_id(submitted[i]) = workers[w].sid => EvalDone(i)
    /\ \A i, j \in 1 .. Len(evals) :
          (i < j /\ _get_session_id(submitted[i]) = _get_session_id(submitted[j]))
              => evals[i] \in {"done", "lost"}

\* C35: of two events of one session the actions of the earlier one are put
\* on the action queue first: an evaluation forwards its actions as its last
\* step, so the evaluation of the later event is never complete while that
\* of the earlier one is still executing or suspended at an await.
C35_ActionsInEventOrder ==
    \A i, j \in 1 .. Len(evals) :
        (/\ i < j
         /\ _get_session_id(submitted[i]) = _get_session_id(submitted[j])
         /\ evals[j] = "done")
            => evals[i] \notin {"running", "suspended"}

\* C15: when stop() of the dispatcher has returned, the evaluation of every
\* event that a worker had dequeued and handed to the bridge has run to
\* completion (its actions were forwarded to the action queue).
C15_DequeuedWorkDone ==
    (stops > 0 /\ stop_pc = "idle" /\ ~proc_is_running) =>
        \A i \in 1 .. Len(submitted) : EvalDone(i)

\* C16: when the processing of an event raises, the error is logged, the
\* worker stays in the loop of its session (the session is not marked
\* inactive, no queued event is dropped), and every logged error is of an
\* event whose processing raised.
C16_ErrorKeepsWorker ==
    [][\A w \in Workers :
          (workers[w].pc = "process" /\ workers'[w] # workers[w]
              /\ create_message(workers[w].msg) = "raise")
          => /\ workers'[w].pc = "loop"
             /\ workers'[w].sid = workers[w].sid
             /\ workers[w].msg \in proc_errors'
             /\ active_sessions' = active_sessions
             /\ session_queues' = session_queues]_vars

\* after an error, the same run of the worker loop has popped the next event
C16_Witness ==
    \E w \in Workers :
        /\ workers[w].pc = "process"
        /\ workers[w].caught
        /\ \E m \in proc_errors :
              /\ _get_session_id(m) = workers[w].sid
              /\ m.seq < workers[w].msg.seq

\* C27: when the factory returns None for a record, the worker hands
\* nothing to the runner for it (so nothing is evaluated and no action is
\* enqueued), logs no error, and stays in the loop of its session with the
\* queue untouched; every record handed to the runner is one for which the
\* factory returned a message.
C27_NoneSkipped ==
    /\ [](\A i \in 1 .. Len(submitted) :
              create_message(submitted[i]) = "message")
    /\ [][\A w \in Workers :
             (workers[w].pc = "process" /\ workers'[w] # workers[w]
                 /\ create_message(workers[w].msg) = "None")
             => /\ submitted' = submitted
                /\ evals' = evals
                /\ rpa_task_queue' = rpa_task_queue
                /\ proc_errors' = proc_errors
                /\ workers'[w].pc = "loop"
                /\ workers'[w].sid = workers[w].sid
                /\ active_sessions' = active_sessions
                /\ session_queues' = session_queues]_vars

\* the second event of the only session is being processed while the runner
\* accepts tasks; the first one left no task and no error behind
C27_Witness ==
    \E w \in Workers :
        /\ workers[w].pc = "process"
        /\ workers[w].msg.seq = 2
        /\ create_message(workers[w].msg) = "message"
        /\ DOMAIN session_queues = {workers[w].sid}
        /\ message_queue = << >>
        /\ runner_is_running /\ stops = 0
        /\ submitted = << >>
        /\ proc_errors = {}

----------------------------------------------------------------------------
(* Claims about the session dispatcher (specification Spec) *)

SessionOf(message) == _get_session_id(message)

DrainingWorkers(s) ==
    { w \in Workers : workers[w].pc # "idle" /\ workers[w].sid = s }

\* C1: two events of the same session are handed to the execution bridge in
\* the order in which they were put on the intake queue: in the sequence of
\* submit_task calls an event of a session never comes after a later event
\* (larger arrival number) of the same session, under every interleaving.
C1_SessionOrder ==
    \A i, j \in 1 .. Len(submitted) :
        (i < j /\ SessionOf(submitted[i]) = SessionOf(submitted[j]))
            => submitted[i].seq < submitted[j].seq

\* C1 witness: two events of one session were both submitted to the bridge.
C1_Witness ==
    \E i, j \in 1 .. Len(submitted) :
        /\ i < j
        /\ SessionOf(submitted[i]) = SessionOf(submitted[j])

\* C2: at every instant at most one pool worker is inside
\* _process_session_messages for a given session.
C2_SessionMutex ==
    \A s \in SessionIds : Cardinality(DrainingWorkers(s)) <= 1

\* C2 witness: the dispatcher is about to schedule a session whose flag is
\* set while a worker is still draining that session (the double schedule
\* that the flag collapses).
C2_Witness ==
    /\ dispatcher.pc = "schedule"
    /\ active_sessions[SessionOf(dispatcher.msg)]
    /\ DrainingWorkers(SessionOf(dispatcher.msg)) # {}

\* C24: with no more sessions than pool threads, a scheduled session never
\* waits for a pool thread: whenever a work item is queued some thread can
\* take it, whatever the other sessions' workers are doing.
C24_SessionsInParallel ==
    (Cardinality(SessionIds) <= PoolSize /\ pool_queue # << >>)
        => \E w \in Workers : idle_thread(workers, w)

\* two workers hold an event of their own session at the same time, while
\* a further event waits in a session queue
C24_Witness ==
    \E v, w \in Workers :
        /\ v # w
        /\ workers[v].pc = "process" /\ workers[w].pc = "process"
        /\ workers[v].sid # workers[w].sid
        /\ \E s \in DOMAIN session_queues : session_queues[s] # << >>

\* The system is at rest with the dispatcher running: nothing on the intake
\* queue, the dispatcher polling it, no worker busy and no work item queued.
AtRest ==
    /\ proc_is_running
    /\ stops = 0
    /\ message_queue = << >>
    /\ dispatcher.pc \in {"loop", "get"}
    /\ pool_queue = << >>
    /\ \A w \in Workers : workers[w].pc = "idle"

\* C3: while the dispatcher keeps running every event appended to a session
\* queue is popped by a worker without a later event being needed; so once
\* the system is at rest no event is left in a session queue.
C3_NoStrandedEvent ==
    AtRest => \A s \in DOMAIN session_queues : session_queues[s] = << >>

\* C38: every session handed to the pool is eventually served, whatever
\* arrives in the other sessions: a work item waiting in the pool queue leads
\* to a pool thread having taken it and working on its session's queue.
C38_SessionsDrained ==
    \A s \in SessionIds :
        (\E i \in DOMAIN pool_queue : pool_queue[i] = s)
            ~> (/\ \A i \in DOMAIN pool_queue : pool_queue[i] # s
                /\ \E w \in Workers :
                      workers[w].pc # "idle" /\ workers[w].sid = s)

\* stop() has returned, start() was called again, and the system is at rest
RestartedAtRest ==
    /\ stops > 0
    /\ stop_pc = "idle"
    /\ proc_is_running
    /\ message_queue = << >>
    /\ dispatcher.pc \in {"loop", "get"}
    /\ pool_queue = << >>
    /\ \A w \in Workers : workers[w].pc = "idle"

\* C36: after stop() and start() the events put on the intake queue are
\* again routed to a session worker, also those of a session that was
\* active when stop() was called; so once the restarted system is at rest
\* no event is left in a session queue.
C36_RestartRoutes ==
    RestartedAtRest => \A s \in DOMAIN session_queues : session_queues[s] = << >>

\* a work item of session s is queued in or running on the pool
WorkersOf(s) ==
    Cardinality({ w \in Workers : workers[w].pc # "idle" /\ workers[w].sid = s })
    + Cardinality({ i \in DOMAIN pool_queue : pool_queue[i] = s })

\* C37: in every state, also after stop(), a session whose active flag is
\* true has exactly one work item queued in or running on the pool.
C37_ActiveHasWorker ==
    \A s \in DOMAIN active_sessions :
        active_sessions[s] => WorkersOf(s) = 1

----------------------------------------------------------------------------
(* PluginManager: the plugin list *)

\* the installed plugin classes: plugin name and class attribute priority
PluginPool ==
    { [name |-> "a", priority |-> 100], [name |-> "b", priority |-> 50],
      [name |-> "c", priority |-> 10],  [name |-> "d", priority |-> 50] }

\* what one discovery can yield: the enabled, valid entry points, in any
\* order, every plugin at most once
Discoveries ==
    { q \in UNION { [1 .. n -> PluginPool] : n \in 0 .. MaxPlugins } :
        \A i, j \in DOMAIN q : i # j => q[i] # q[j] }

\* a pass that puts p before the plugins of its own priority
RECURSIVE InsertBeforeEqual(_, _)
InsertBeforeEqual(sorted, p) ==
    IF sorted = << >> THEN << p >>
    ELSE IF Head(sorted).priority > p.priority
         THEN << Head(sorted) >> \o InsertBeforeEqual(Tail(sorted), p)
         ELSE << p >> \o sorted

\* one pass of the stable sort: p goes behind every plugin whose priority is
\* not lower than its own
RECURSIVE InsertByPriority(_, _)
InsertByPriority(sorted, p) ==
    IF sorted = << >> THEN << p >>
    ELSE IF Head(sorted).priority >= p.priority
         THEN << Head(sorted) >> \o InsertByPriority(Tail(sorted), p)
         ELSE << p >> \o sorted

\* self.plugins.sort(key=priority, reverse=True): descending and stable
RECURSIVE SortByPriority(_)
SortByPriority(list) ==
    IF list = << >> THEN << >>
    ELSE InsertByPriority(SortByPriority(SubSeq(list, 1, Len(list) - 1)),
                          list[Len(list)])

\* load_plugins: append every discovered plugin, then sort
load_plugins(current, discovered) == SortByPriority(current \o discovered)

\* what one handle_message call does: it may add a response, may set
\* should_stop on the context, and may raise after that
Behaviours == [respond : BOOLEAN, stop : BOOLEAN, raise : BOOLEAN]

NewContext == [responses |-> << >>, errors |-> << >>, should_stop |-> FALSE]

NoReload == [pc |-> "idle", discovered |-> << >>, k |-> 0, old |-> << >>, n |-> 0]

\* the lists a finished load leaves: the one in place when no reload is
\* running, else the one the reload cleared and the one it is loading
CompleteLists ==
    IF reload.pc = "idle"
    THEN { plugins }
    ELSE { reload.old, SortByPriority(reload.discovered) }

InitChain ==
    /\ plugins = << >>
    /\ chain = [pc |-> "new", idx |-> 0]
    /\ excute_context = NewContext
    /\ invoked = << >>
    /\ started = [list |-> << >>, lists |-> { << >> }]
    /\ reload = NoReload

\* PluginManager.setup
Setup(discovered) ==
    /\ UNCHANGED notC
    /\ chain.pc = "new"
    /\ plugins' = load_plugins(plugins, discovered)
    /\ chain' = [pc |-> "idle", idx |-> 0]
    /\ reload' = [reload EXCEPT !.discovered = discovered]
    /\ UNCHANGED << excute_context, invoked, started >>

----------------------------------------------------------------------------
(* PluginManager.process_message *)

\* the plugin's own effect on the context, up to its return or raise
handle_message(ctx, plugin, b) ==
    [ctx EXCEPT !.responses = IF b.respond
                              THEN Append(@, [plugin_name |-> plugin.name])
                              ELSE @,
                !.should_stop = @ \/ b.stop]

\* PluginExcuteContext.add_error
add_error(ctx, plugin_name) ==
    [ctx EXCEPT !.errors = Append(@, [plugin_name |-> plugin_name])]

\* loop body without the should_stop test
LoopBodyNoBreak(ch, ctx, plugin, b) ==
    LET after == handle_message(ctx, plugin, b)
    IN  IF b.raise
        THEN [chain |-> [ch EXCEPT !.idx = @ + 1],
              context |-> add_error(after, plugin.name)]
        ELSE [chain |-> [ch EXCEPT !.idx = @ + 1], context |-> after]

\* loop body when an error also ends the chain
LoopBodyStopOnError(ch, ctx, plugin, b) ==
    LET after == handle_message(ctx, plugin, b)
    IN  IF b.raise
        THEN [chain |-> [ch EXCEPT !.pc = "return"],
              context |-> add_error(after, plugin.name)]
        ELSE IF after.should_stop
             THEN [chain |-> [ch EXCEPT !.pc = "return"], context |-> after]
             ELSE [chain |-> [ch EXCEPT !.idx = @ + 1], context |-> after]

\* the body of "for plugin in self.plugins": await handle_message; break when
\* the context asks to stop; an exception is recorded and the loop goes on
LoopBody(ch, ctx, plugin, b) ==
    LET after == handle_message(ctx, plugin, b)
    IN  IF b.raise
        THEN [chain |-> [ch EXCEPT !.idx = @ + 1],
              context |-> add_error(after, plugin.name)]
        ELSE IF after.should_stop
             THEN [chain |-> [ch EXCEPT !.pc = "return"], context |-> after]
             ELSE [chain |-> [ch EXCEPT !.idx = @ + 1], context |-> after]

\* excute_context = PluginExcuteContext(message, context)
ProcessStart ==
    /\ UNCHANGED notC
    /\ chain.pc \in {"idle", "done"}
    /\ chain' = [pc |-> "running", idx |-> 1]
    /\ excute_context' = NewContext
    /\ invoked' = << >>
    /\ started' = [list |-> plugins, lists |-> CompleteLists]
    /\ UNCHANGED << plugins, reload >>

\* one iteration of the loop over self.plugins
Invoke(b) ==
    /\ UNCHANGED notC
    /\ chain.pc = "running"
    /\ chain.idx <= Len(plugins)
    /\ LET plugin == plugins[chain.idx]
           out == LoopBody(chain, excute_context, plugin, b)
       IN  /\ chain' = out.chain
           /\ excute_context' = out.context
           /\ invoked' = Append(invoked,
                 [name |-> plugin.name, rank |-> chain.idx, stop |-> b.stop,
                  raised |-> b.raise,
                  ctx_stop |-> handle_message(excute_context, plugin, b).should_stop])
    /\ UNCHANGED << plugins, started, reload >>

\* the list is exhausted
LoopEnd ==
    /\ UNCHANGED notC
    /\ chain.pc = "running"
    /\ chain.idx > Len(plugins)
    /\ chain' = [chain EXCEPT !.pc = "return"]
    /\ UNCHANGED << plugins, excute_context, invoked, started, reload >>

\* return excute_context.get_responses()
ProcessReturn ==
    /\ UNCHANGED notC
    /\ chain.pc = "return"
    /\ chain' = [chain EXCEPT !.pc = "done"]
    /\ UNCHANGED << plugins, excute_context, invoked, started, reload >>

NextChain ==
    \/ \E d \in Discoveries : Setup(d)
    \/ ProcessStart
    \/ \E b \in Behaviours : Invoke(b)
    \/ LoopEnd
    \/ ProcessReturn

----------------------------------------------------------------------------
(* PluginManager.reload_all_plugins, called while messages are processed *)

\* self.plugins.clear(): the list object process_message iterates is emptied
ReloadClear(discovered) ==
    /\ UNCHANGED notC
    /\ chain.pc # "new"
    /\ reload.pc = "idle"
    /\ reload.n < MaxReloads
    /\ plugins' = << >>
    /\ reload' = [pc |-> "load", discovered |-> discovered, k |-> 0,
                  old |-> plugins, n |-> reload.n + 1]
    /\ UNCHANGED << chain, excute_context, invoked, started >>

\* load_plugins: self.plugins.append(plugin_instance), one plugin per turn
ReloadAppend ==
    /\ UNCHANGED notC
    /\ reload.pc = "load"
    /\ reload.k < Len(reload.discovered)
    /\ plugins' = Append(plugins, reload.discovered[reload.k + 1])
    /\ reload' = [reload EXCEPT !.k = @ + 1]
    /\ UNCHANGED << chain, excute_context, invoked, started >>

\* load_plugins: self.plugins.sort(...) once every entry point was visited
ReloadSort ==
    /\ UNCHANGED notC
    /\ reload.pc = "load"
    /\ reload.k = Len(reload.discovered)
    /\ plugins' = SortByPriority(plugins)
    /\ reload' = [reload EXCEPT !.pc = "idle", !.k = 0, !.old = << >>]
    /\ UNCHANGED << chain, excute_context, invoked, started >>

\* the reloads are explored with the discoveries below the longest
ShortDiscoveries == { d \in Discoveries : Len(d) < MaxPlugins }

NextReload ==
    \/ \E d \in ShortDiscoveries : Setup(d)
    \/ ProcessStart
    \/ \E b \in Behaviours : Invoke(b)
    \/ LoopEnd
    \/ ProcessReturn
    \/ \E d \in ShortDiscoveries : ReloadClear(d)
    \/ ReloadAppend
    \/ ReloadSort

----------------------------------------------------------------------------
(* Claims about the plugin chain (specification SpecChain) *)

Ended == chain.pc \in {"return", "done"}

\* the rank (position in the plugin list) of the plugin with this name
RankOf(name) == CHOOSE i \in 1 .. Len(plugins) : plugins[i].name = name

\* C4: when the plugin at rank k sets should_stop and returns, it is the last
\* plugin invoked for the event, the plugins were invoked in rank order, and
\* the result list holds only results of plugins up to rank k (so at most k
\* entries, counting ranks from 1).
C4_ShortCircuit ==
    \A k \in 1 .. Len(invoked) :
        (invoked[k].stop /\ ~invoked[k].raised) =>
            /\ invoked[k].rank = k
            /\ Len(invoked) = k
            /\ chain.pc \in {"return", "done"}
            /\ Len(excute_context.responses) <= k
            /\ \A r \in 1 .. Len(excute_context.responses) :
                  RankOf(excute_context.responses[r].plugin_name) <= k

\* C4 witness: plugins with priorities 100, 50 and 10, the one at 50 set
\* should_stop; the evaluation is over with two results and two calls.
C4_Witness ==
    /\ chain.pc = "done"
    /\ Len(plugins) = 3
    /\ plugins[1].priority = 100 /\ plugins[2].priority = 50
    /\ plugins[3].priority = 10
    /\ Len(invoked) = 2
    /\ invoked[2].stop /\ ~invoked[2].raised /\ ~invoked[1].stop
    /\ Len(excute_context.responses) = 2

ErrorsNaming(name) ==
    { e \in 1 .. Len(excute_context.errors) :
        excute_context.errors[e].plugin_name = name }

\* C5: when a plugin raises without should_stop being set, exactly one error
\* entry names it, the exception stays inside process_message (the call
\* still returns its result list), and the plugins after it are still
\* invoked: the next one always, and all of them unless one asks to stop.
C5_ErrorIsolation ==
    /\ chain.pc \in {"new", "idle", "running", "return", "done"}
    /\ \A k \in 1 .. Len(invoked) :
        (invoked[k].raised /\ ~invoked[k].ctx_stop) =>
            /\ Cardinality(ErrorsNaming(invoked[k].name)) = 1
            /\ (Ended /\ k < Len(plugins)) => Len(invoked) > k
            /\ (Ended /\ \A j \in k + 1 .. Len(invoked) : ~invoked[j].ctx_stop)
                  => Len(invoked) = Len(plugins)

\* C5 witness: the first of three plugins raised, the other two ran, and the
\* call returned with one error entry.
C5_Witness ==
    /\ chain.pc = "done"
    /\ Len(plugins) = 3
    /\ Len(invoked) = 3
    /\ invoked[1].raised /\ ~invoked[1].ctx_stop
    /\ Len(excute_context.errors) = 1

----------------------------------------------------------------------------
(* TokenBucket.  Rates are in units of 1/TokenScale token per second,       *)
(* capacities and token counts in units of 1/TokenScale token.              *)

NoBucket ==
    [made |-> FALSE, _rate |-> 0, _capacity |-> 0, _tokens |-> 0,
     _last_update |-> 0]

Min(a, b) == IF a <= b THEN a ELSE b

\* TokenBucket.__init__ at time t
TokenBucket(rate, capacity, t) ==
    [made |-> TRUE, _rate |-> rate, _capacity |-> capacity,
     _tokens |-> capacity, _last_update |-> t]

\* _refill without the cap
RefillNoCap(b, t) ==
    LET elapsed == t - b._last_update
    IN  IF elapsed > 0
        THEN [b EXCEPT !._tokens = b._tokens + elapsed * b._rate,
                       !._last_update = t]
        ELSE b

\* TokenBucket._refill at time t
_refill(b, t) ==
    LET elapsed == t - b._last_update
    IN  IF elapsed > 0
        THEN [b EXCEPT !._tokens =
                          Min(b._capacity, b._tokens + elapsed * b._rate),
                       !._last_update = t]
        ELSE b

\* the tokens property: refills, then reads _tokens (the bucket after it)
tokens(b, t) == _refill(b, t)

\* TokenBucket.consume(amount): the bucket after the call and the result
consume(b, amount) ==
    IF b._tokens >= amount * TokenScale
    THEN [bucket |-> [b EXCEPT !._tokens = @ - amount * TokenScale],
          ok |-> TRUE]
    ELSE [bucket |-> b, ok |-> FALSE]

\* the configurations explored: no refill, 1/TokenScale token per second,
\* one token per second; capacities of 0, 1 and 2 tokens
BucketRates == {0, 1, TokenScale}
BucketCapacities == {0, TokenScale, 2 * TokenScale}

\* the record of the last consume call.  "available" is what a refill at the
\* time of the call would have made of the bucket; "refilled" tells that
\* every earlier consume found the bucket refilled up to the time of its call
\* (elapsed time 0), so that the bucket's fields were, at this call, what
\* they are after a consume that refills.  "at" is the time of the call.
NoConsume ==
    [called |-> FALSE, amount |-> 0, available |-> 0, ok |-> FALSE,
     refilled |-> TRUE, elapsed |-> 0, at |-> 0]

InitBucket ==
    /\ now = 0
    /\ bucket = NoBucket
    /\ last_consume = NoConsume

\* time passes
Tick ==
    /\ now < MaxTime
    /\ now' = now + 1
    /\ UNCHANGED << dvars, evars, cvars, bvars, rvars, qvars, kvars, ovars >>

NewBucket(rate, capacity) ==
    /\ UNCHANGED notB
    /\ ~bucket.made
    /\ bucket' = TokenBucket(rate, capacity, now)
    /\ UNCHANGED << now, last_consume >>

\* a read of bucket.tokens
ReadTokens ==
    /\ UNCHANGED notB
    /\ bucket.made
    /\ bucket' = tokens(bucket, now)
    /\ UNCHANGED << now, last_consume >>

\* a call of bucket.consume(amount)
Consume(amount) ==
    /\ UNCHANGED notB
    /\ bucket.made
    /\ bucket' = consume(bucket, amount).bucket
    /\ last_consume' =
          [called |-> TRUE, amount |-> amount,
           available |-> Min(bucket._capacity,
                             bucket._tokens
                               + (now - bucket._last_update) * bucket._rate),
           ok |-> consume(bucket, amount).ok,
           refilled |-> last_consume.refilled /\ last_consume.elapsed = 0,
           elapsed |-> now - bucket._last_update,
           at |-> now]
    /\ UNCHANGED now

NextBucket ==
    \/ Tick
    \/ \E r \in BucketRates, c \in BucketCapacities : NewBucket(r, c)
    \/ ReadTokens
    \/ \E n \in 0 .. MaxAmount : Consume(n)

\* C29: when a plugin sets should_stop on the context and then raises, the
\* chain stops there: the error is recorded under the plugin's name and no
\* later plugin is invoked for the event.
C29_StopThenRaiseStops ==
    \A i \in DOMAIN invoked :
        (invoked[i].stop /\ invoked[i].raised)
            => /\ i = Len(invoked)
               /\ \E k \in DOMAIN excute_context.errors :
                      excute_context.errors[k].plugin_name = invoked[i].name

StoppedEarly ==
    /\ invoked # << >>
    /\ invoked[Len(invoked)].ctx_stop
    /\ ~invoked[Len(invoked)].raised

\* C13: an evaluation invokes the plugins of the list as it was when the
\* evaluation started, in that order, and all of them unless a plugin stopped
\* the chain, whatever a reload does meanwhile.
C13_IteratesSnapshot ==
    chain.pc \in {"running", "return", "done"} =>
        /\ Len(invoked) <= Len(started.list)
        /\ \A i \in 1 .. Len(invoked) : invoked[i].name = started.list[i].name
        /\ (Ended /\ ~StoppedEarly) => Len(invoked) = Len(started.list)

\* C14: the list an evaluation starts with is a complete sorted list: the one
\* before the reload or the one the reload installs.
C14_AtomicReplace ==
    chain.pc \in {"running", "return", "done"} => started.list \in started.lists

----------------------------------------------------------------------------
(* Claims about the token bucket (specification SpecBucket) *)

\* C6: consume(n) refills from the elapsed time first and succeeds exactly
\* when min(capacity, tokens + elapsed * rate) >= n; so with capacity 2 and
\* rate 1/s a consume(1) made more than a second after the bucket was
\* emptied, with no other call in between, succeeds.
C6_ConsumeRefills ==
    (last_consume.called /\ last_consume.refilled) =>
        (last_consume.ok <=>
            last_consume.available >= last_consume.amount * TokenScale)

\* C7: the token count of a bucket stays within [0, capacity].
C7_TokensInRange ==
    bucket.made => (0 <= bucket._tokens /\ bucket._tokens <= bucket._capacity)

\* C23: when the last consume took all the tokens of the full bucket (its
\* amount was the capacity and it succeeded), a read of tokens t seconds
\* after it gives min(capacity, t * rate).
C23_RefillAfterEmpty ==
    (/\ bucket.made
     /\ last_consume.called /\ last_consume.ok /\ last_consume.amount > 0
     /\ last_consume.amount * TokenScale = bucket._capacity
     /\ bucket._last_update = now)
    => bucket._tokens = Min(bucket._capacity,
                            (now - last_consume.at) * bucket._rate)

\* C7 witness: a bucket of two tokens that was emptied by consume, has
\* refilled up to its capacity and was read well after it was full.
C7_Witness ==
    /\ bucket.made
    /\ bucket._rate = TokenScale
    /\ bucket._capacity = 2 * TokenScale
    /\ last_consume.called /\ last_consume.ok /\ last_consume.amount = 2
    /\ bucket._tokens = bucket._capacity
    /\ bucket._last_update >= 4

----------------------------------------------------------------------------
(* RPAController: the rate limiter *)

\* the actions put on the queue: a communication action, another one, and a
\* communication action whose handler is registered only when its import
\* succeeds
ActionInputs ==
    { [action_type |-> "SEND_TEXT_MESSAGE", is_send_message |-> TRUE],
      [action_type |-> "SWITCH_CONVERSATION", is_send_message |-> FALSE],
      [action_type |-> "SEND_PYQ", is_send_message |-> TRUE] }

NoAction == [id |-> 0, action_type |-> "", is_send_message |-> FALSE]

\* RPAController.action_handlers after _register_handlers (the types used)
action_handlers == { "SEND_TEXT_MESSAGE", "SWITCH_CONVERSATION" }

\* a lookup that finds a handler for every type
GetHandlerAny(action_type) == action_type

\* self.action_handlers.get(action.action_type): None for a type without a
\* registered handler
get_handler(action_type) ==
    IF action_type \in action_handlers THEN action_type ELSE "None"

\* the rpa_config values explored, rate and capacity of the short-term and
\* of the long-term bucket: a long-term bucket that refills one token in
\* TokenScale seconds, and one that never refills
LimiterConfigs ==
    { [short_term_rate |-> 0, short_term_capacity |-> 2 * TokenScale,
       long_term_rate |-> 1, long_term_capacity |-> TokenScale],
      [short_term_rate |-> TokenScale, short_term_capacity |-> 2 * TokenScale,
       long_term_rate |-> 0, long_term_capacity |-> TokenScale] }

\* a limiter that tests the short-term bucket only before it consumes
CanSendShortOnly(short, long, t) ==
    LET s1 == tokens(short, t)
    IN  IF s1._tokens >= TokenScale
        THEN [short |-> consume(s1, 1).bucket,
              long |-> consume(tokens(long, t), 1).bucket, ok |-> TRUE]
        ELSE [short |-> s1, long |-> long, ok |-> FALSE]

\* _can_send_message at time t, under rate_limiter_lock: the two buckets
\* after the call and the result.  "and" reads the long-term bucket only
\* when the short-term one has a token.
_can_send_message(short, long, t) ==
    LET s1 == tokens(short, t)
        l1 == IF s1._tokens >= TokenScale THEN tokens(long, t) ELSE long
    IN  IF s1._tokens >= TokenScale /\ l1._tokens >= TokenScale
        THEN [short |-> consume(s1, 1).bucket,
              long |-> consume(l1, 1).bucket, ok |-> TRUE]
        ELSE [short |-> s1, long |-> l1, ok |-> FALSE]

----------------------------------------------------------------------------
(* RPAService and its worker threads *)

ThreadIds == 1 .. MaxThreads

NoSnapshot == [tokens |-> 0, elapsed |-> 0, at |-> 0]

\* a thread: pc, the action it holds, start_time of its rate-limit wait, the
\* end of its sleep, the number of _can_send_message calls for the action,
\* whether a bucket without token and without refill existed when the call
\* began, and what an unlocked _refill has read so far
NoThread ==
    [pc |-> "unborn", task |-> NoAction, start_time |-> 0, wake |-> 0,
     polls |-> 0, starved |-> FALSE, read |-> NoSnapshot]

InsideExecute(t) ==
    rthreads[t].pc \in { "limit", "sleep", "log_short", "store_short",
                         "log_long", "store_long", "handler" }

Alive(t) == rthreads[t].pc \notin {"unborn", "dead"}

\* a bucket without a whole token that never refills
Starved(b) == b._rate = 0 /\ b._tokens < TokenScale

\* the record of a call that returned; for a call that gave up, the time it
\* took and the number of _can_send_message calls it made
Execution(th, result, cause, t) ==
    [id |-> th.task.id, is_send_message |-> th.task.is_send_message,
     result |-> result, cause |-> cause, starved |-> th.starved,
     elapsed |-> IF cause = "timeout" THEN t - th.start_time ELSE 0,
     polls |-> IF cause = "timeout" THEN th.polls ELSE 0,
     outcome |-> "", propagated |-> FALSE]

NoExecution ==
    [id |-> 0, is_send_message |-> FALSE, result |-> FALSE, cause |-> "",
     elapsed |-> 0, polls |-> 0, starved |-> FALSE,
     outcome |-> "", propagated |-> FALSE]

\* the thread after execute_action returned and task_done()
Returned(th) ==
    [th EXCEPT !.pc = "loop", !.task = NoAction, !.start_time = 0,
               !.wake = 0, !.polls = 0, !.starved = FALSE,
               !.read = NoSnapshot]

InitRpa ==
    /\ rpa_is_running = FALSE
    /\ rpa_thread = 0
    /\ rthreads = [t \in ThreadIds |-> NoThread]
    /\ task_queue = << >>
    /\ next_action = 0
    /\ short_term_limiter = NoBucket
    /\ long_term_limiter = NoBucket
    /\ rpa_stop = [pc |-> "idle", deadline |-> 0]
    /\ last_execution = NoExecution
    /\ executed = [i \in 1 .. MaxActions |-> 0]
    /\ handled = {}
    /\ passes = 0

\* RPAController.__init__: the two buckets are created full
NewController(cfg) ==
    /\ UNCHANGED notR
    /\ ~short_term_limiter.made
    /\ short_term_limiter' =
          TokenBucket(cfg.short_term_rate, cfg.short_term_capacity, now)
    /\ long_term_limiter' =
          TokenBucket(cfg.long_term_rate, cfg.long_term_capacity, now)
    /\ UNCHANGED << now, rpa_is_running, rpa_thread, rthreads, task_queue,
                    next_action, rpa_stop, last_execution, executed, handled, passes >>

\* time passes; the monotonic clock is read from the construction on.  The
\* loop test, queue.get on a queue that holds an action, and the first call
\* of the limiter take no time, and a sleep, the timeout of queue.get and a
\* join end when their time is up: the clock does not advance before such a
\* step is taken.  A handler
\* and the unlocked reads of the timeout message may take any time.
RpaTick ==
    /\ UNCHANGED notR
    /\ short_term_limiter.made
    /\ now < MaxTime
    /\ \A t \in ThreadIds : rthreads[t].pc \notin {"loop", "limit"}
    /\ \A t \in ThreadIds :
          rthreads[t].pc = "get" =>
              task_queue = << >> /\ now < rthreads[t].wake
    /\ \A t \in ThreadIds : rthreads[t].pc = "sleep" => now < rthreads[t].wake
    /\ rpa_stop.pc = "join" => now < rpa_stop.deadline
    /\ now' = now + 1
    /\ UNCHANGED rvars

\* a producer puts an action on the queue
Enqueue(a) ==
    /\ UNCHANGED notR
    /\ next_action < MaxActions
    /\ next_action' = next_action + 1
    /\ task_queue' = Append(task_queue,
          [id |-> next_action + 1, action_type |-> a.action_type,
           is_send_message |-> a.is_send_message])
    /\ UNCHANGED << now, rpa_is_running, rpa_thread, rthreads,
                    short_term_limiter, long_term_limiter, rpa_stop,
                    last_execution, executed, handled, passes >>

\* RPAService.start: a new RPAWorkerThread
RpaStart ==
    /\ UNCHANGED notR
    /\ short_term_limiter.made
    /\ rpa_stop.pc = "idle"
    /\ ~rpa_is_running
    /\ \E t \in ThreadIds :
          /\ rthreads[t].pc = "unborn"
          /\ \A u \in ThreadIds : u < t => rthreads[u].pc # "unborn"
          /\ rpa_thread' = t
          /\ rthreads' = [rthreads EXCEPT ![t].pc = "loop"]
    /\ rpa_is_running' = TRUE
    /\ UNCHANGED << now, task_queue, next_action, short_term_limiter,
                    long_term_limiter, rpa_stop, last_execution, executed, handled, passes >>

\* _execute_loop: while self.is_running:
ThreadLoop(t) ==
    /\ UNCHANGED notR
    /\ rthreads[t].pc = "loop"
    /\ rthreads' = [rthreads EXCEPT ![t] =
          IF rpa_is_running
          THEN [@ EXCEPT !.pc = "get", !.wake = now + get_timeout]
          ELSE [@ EXCEPT !.pc = "dead"]]
    /\ UNCHANGED << now, rpa_is_running, rpa_thread, task_queue, next_action,
                    short_term_limiter, long_term_limiter, rpa_stop,
                    last_execution, executed, handled, passes >>

\* every action waits for the limiter
EntryAlwaysLimit(task) == "limit"

\* if action.is_send_message: the rate-limit wait; otherwise straight to the
\* try block with handler.execute
entry_step(task) == IF task.is_send_message THEN "limit" ELSE "handler"

\* a test that lets the first action of the queue go by
TaskTrueAfterFirst(task) == task.id > 1

\* if task: an RPAAction is a dataclass without __bool__ or __len__, so
\* every action is true
task_is_true(task) == task # NoAction

\* task = self.task_queue.get(block=True, timeout=1.0) and "if task:", then
\* the head of execute_action(task): the handler lookup and the
\* is_send_message test
ThreadGet(t) ==
    /\ UNCHANGED notR
    /\ rthreads[t].pc = "get"
    /\ IF task_queue = << >>
       THEN \* queue.Empty when the timeout is over: continue
            /\ now >= rthreads[t].wake
            /\ rthreads' = [rthreads EXCEPT ![t].pc = "loop", ![t].wake = 0]
            /\ UNCHANGED << task_queue, last_execution, executed >>
       ELSE LET task == Head(task_queue)
                th == [rthreads[t] EXCEPT !.task = task, !.start_time = now,
                          !.wake = 0,
                          !.polls = 0,
                          !.starved = Starved(short_term_limiter)
                                        \/ Starved(long_term_limiter)]
            IN  /\ task_queue' = Tail(task_queue)
                /\ IF ~task_is_true(task)
                   THEN /\ rthreads' = [rthreads EXCEPT ![t].pc = "loop",
                                                        ![t].wake = 0]
                        /\ UNCHANGED << last_execution, executed >>
                   ELSE IF get_handler(task.action_type) = "None"
                   THEN /\ rthreads' = [rthreads EXCEPT ![t] =
                               Returned(th)]
                        /\ last_execution' =
                               Execution(th, FALSE, "unregistered", now)
                        /\ executed' = [executed EXCEPT ![task.id] = @ + 1]
                   ELSE /\ rthreads' = [rthreads EXCEPT ![t] =
                               [th EXCEPT !.pc = entry_step(task)]]
                        /\ UNCHANGED << last_execution, executed >>
    /\ UNCHANGED << now, rpa_is_running, rpa_thread, next_action,
                    short_term_limiter, long_term_limiter, rpa_stop,
                    handled, passes >>

\* time.monotonic() - start_time > max_wait_seconds
TimedOut(start_time, t) == t - start_time > max_wait_seconds

\* one round of "while not self._can_send_message():", at the start of the
\* wait or when time.sleep(wait_interval) is over: on True the wait ends; on
\* False the thread gives up when the time is up, and sleeps otherwise
Poll(t) ==
    /\ UNCHANGED notR
    /\ \/ rthreads[t].pc = "limit"
       \/ rthreads[t].pc = "sleep" /\ now >= rthreads[t].wake
    /\ LET r == _can_send_message(short_term_limiter, long_term_limiter, now)
           th == [rthreads[t] EXCEPT !.polls = @ + 1, !.wake = 0]
       IN  /\ short_term_limiter' = r.short
           /\ long_term_limiter' = r.long
           /\ passes' = IF r.ok THEN passes + 1 ELSE passes
           /\ rthreads' = [rthreads EXCEPT ![t] =
                 IF r.ok
                 THEN [th EXCEPT !.pc = "handler", !.start_time = 0,
                                 !.polls = 0]
                 ELSE IF TimedOut(th.start_time, now)
                      THEN [th EXCEPT !.pc = "log_short"]
                      ELSE [th EXCEPT !.pc = "sleep",
                                      !.wake = now + wait_interval]]
    /\ UNCHANGED << now, rpa_is_running, rpa_thread, task_queue, next_action,
                    rpa_stop, last_execution, executed, handled >>

\* what _refill reads: the token count and the elapsed time
Snapshot(b, t) ==
    [tokens |-> b._tokens, elapsed |-> t - b._last_update, at |-> t]

\* what _refill then writes, from what it read
StoreRefill(b, read) ==
    IF read.elapsed > 0
    THEN [b EXCEPT !._tokens = Min(b._capacity,
                                   read.tokens + read.elapsed * b._rate),
                   !._last_update = read.at]
    ELSE b

\* the timeout message reads short_term_limiter.tokens and
\* long_term_limiter.tokens without rate_limiter_lock; each read is a
\* _refill, whose reads and writes of the bucket are separate steps
LogRead(t) ==
    /\ UNCHANGED notR
    /\ rthreads[t].pc \in {"log_short", "log_long"}
    /\ rthreads' = [rthreads EXCEPT
          ![t].pc = IF @ = "log_short" THEN "store_short" ELSE "store_long",
          ![t].read = IF rthreads[t].pc = "log_short"
                      THEN Snapshot(short_term_limiter, now)
                      ELSE Snapshot(long_term_limiter, now)]
    /\ UNCHANGED << now, rpa_is_running, rpa_thread, task_queue, next_action,
                    short_term_limiter, long_term_limiter, rpa_stop,
                    last_execution, executed, handled, passes >>

LogStoreShort(t) ==
    /\ UNCHANGED notR
    /\ rthreads[t].pc = "store_short"
    /\ short_term_limiter' = StoreRefill(short_term_limiter, rthreads[t].read)
    /\ rthreads' = [rthreads EXCEPT ![t].pc = "log_long",
                                    ![t].read = NoSnapshot]
    /\ UNCHANGED << now, rpa_is_running, rpa_thread, task_queue, next_action,
                    long_term_limiter, rpa_stop, last_execution, executed, handled, passes >>

\* the second read is stored, then execute_action returns False
LogStoreLong(t) ==
    /\ UNCHANGED notR
    /\ rthreads[t].pc = "store_long"
    /\ long_term_limiter' = StoreRefill(long_term_limiter, rthreads[t].read)
    /\ last_execution' = Execution(rthreads[t], FALSE, "timeout", now)
    /\ executed' = [executed EXCEPT ![rthreads[t].task.id] = @ + 1]
    /\ rthreads' = [rthreads EXCEPT ![t] = Returned(@)]
    /\ UNCHANGED << now, rpa_is_running, rpa_thread, task_queue, next_action,
                    short_term_limiter, rpa_stop, handled, passes >>

\* success = handler.execute(action): True, False or an exception, which
\* execute_action turns into False; then task_done()
HandlerOutcomes == {"True", "False", "raise"}

\* handler.execute without the try block: the exception leaves execute_action
HandlerCallNoCatch(outcome) ==
    [result |-> outcome = "True", propagated |-> outcome = "raise"]

\* try: success = handler.execute(action); return success
\* except Exception: logger.error(...); return False
handler_call(outcome) ==
    [result |-> outcome = "True", propagated |-> FALSE]

HandlerRun(t, outcome) ==
    /\ UNCHANGED notR
    /\ rthreads[t].pc = "handler"
    /\ handled' = handled \cup {rthreads[t].task.id}
    /\ LET call == handler_call(outcome)
       IN  last_execution' =
              [Execution(rthreads[t], call.result, "handler", now)
                  EXCEPT !.outcome = outcome, !.propagated = call.propagated]
    /\ executed' = [executed EXCEPT ![rthreads[t].task.id] = @ + 1]
    /\ rthreads' = [rthreads EXCEPT ![t] = Returned(@)]
    /\ UNCHANGED << now, rpa_is_running, rpa_thread, task_queue, next_action,
                    short_term_limiter, long_term_limiter, rpa_stop, passes >>

\* RPAService.stop: is_running = False, then join(timeout=5.0) if the thread
\* is alive
RpaStopBegin ==
    /\ UNCHANGED notR
    /\ rpa_stop.pc = "idle"
    /\ rpa_is_running
    /\ rpa_is_running' = FALSE
    /\ IF rpa_thread # 0 /\ Alive(rpa_thread)
       THEN /\ rpa_stop' = [pc |-> "join", deadline |-> now + join_timeout]
            /\ UNCHANGED rpa_thread
       ELSE /\ rpa_thread' = 0
            /\ UNCHANGED rpa_stop
    /\ UNCHANGED << now, rthreads, task_queue, next_action,
                    short_term_limiter, long_term_limiter, last_execution, executed,
                    handled, passes >>

\* join returns because the thread ended; self.thread = None
RpaStopJoined ==
    /\ UNCHANGED notR
    /\ rpa_stop.pc = "join"
    /\ ~Alive(rpa_thread)
    /\ rpa_thread' = 0
    /\ rpa_stop' = [pc |-> "idle", deadline |-> 0]
    /\ UNCHANGED << now, rpa_is_running, rthreads, task_queue, next_action,
                    short_term_limiter, long_term_limiter, last_execution, executed,
                    handled, passes >>

\* join times out with the thread still alive: a warning, self.thread = None.
\* A thread in queue.get sees the flag within get_timeout, so the thread that
\* outlives the join is one inside execute_action.
RpaStopTimeout ==
    /\ UNCHANGED notR
    /\ rpa_stop.pc = "join"
    /\ now >= rpa_stop.deadline
    /\ InsideExecute(rpa_thread)
    /\ rpa_thread' = 0
    /\ rpa_stop' = [pc |-> "idle", deadline |-> 0]
    /\ UNCHANGED << now, rpa_is_running, rthreads, task_queue, next_action,
                    short_term_limiter, long_term_limiter, last_execution, executed,
                    handled, passes >>

\* the worker of a service that is started once
NextExec ==
    \/ RpaTick
    \/ \E cfg \in LimiterConfigs : NewController(cfg)
    \/ \E a \in ActionInputs : Enqueue(a)
    \/ RpaStart
    \/ \E t \in ThreadIds : ThreadLoop(t)
    \/ \E t \in ThreadIds : ThreadGet(t)
    \/ \E t \in ThreadIds : Poll(t)
    \/ \E t \in ThreadIds : LogRead(t)
    \/ \E t \in ThreadIds : LogStoreShort(t)
    \/ \E t \in ThreadIds : LogStoreLong(t)
    \/ \E t \in ThreadIds, o \in HandlerOutcomes : HandlerRun(t, o)

\* the service with stop() and further start() calls
SlowRefill == { cfg \in LimiterConfigs : cfg.long_term_rate = 1 }

SendInputs == { a \in ActionInputs : a.is_send_message }

NextRpa ==
    \/ RpaTick
    \/ \E cfg \in SlowRefill : NewController(cfg)
    \/ \E a \in SendInputs : Enqueue(a)
    \/ RpaStart
    \/ \E t \in ThreadIds : ThreadLoop(t)
    \/ \E t \in ThreadIds : ThreadGet(t)
    \/ \E t \in ThreadIds : Poll(t)
    \/ \E t \in ThreadIds : LogRead(t)
    \/ \E t \in ThreadIds : LogStoreShort(t)
    \/ \E t \in ThreadIds : LogStoreLong(t)
    \/ \E t \in ThreadIds, o \in HandlerOutcomes : HandlerRun(t, o)
    \/ RpaStopBegin
    \/ RpaStopJoined
    \/ RpaStopTimeout

----------------------------------------------------------------------------
(* Claims about RPAController.execute_action and RPAService *)

Holders(id) == { t \in ThreadIds : rthreads[t].task.id = id }

Queued(id) == { i \in 1 .. Len(task_queue) : task_queue[i].id = id }

\* C8: a communication action with a registered handler whose execute_action
\* call began with a bucket that has no token and never refills is never
\* passed to its handler; the
\* call polls the limiter once per wait_interval, returns False after more
\* than max_wait_seconds, and the action is neither put back on the queue
\* nor executed again.
C8_StarvedSendAbandoned ==
    /\ \A t \in ThreadIds :
          (rthreads[t].task.is_send_message /\ rthreads[t].starved)
              => rthreads[t].pc # "handler"
    /\ (last_execution.is_send_message /\ last_execution.starved
            /\ last_execution.cause # "unregistered") =>
          /\ last_execution.result = FALSE
          /\ last_execution.cause = "timeout"
          /\ last_execution.elapsed > max_wait_seconds
          /\ last_execution.polls = (max_wait_seconds \div wait_interval) + 2
          /\ last_execution.id \notin handled
          /\ executed[last_execution.id] = 1
          /\ Queued(last_execution.id) = {}
          /\ Holders(last_execution.id) = {}

\* a starved communication action was given up while another action had
\* been handled
C8_Witness ==
    /\ last_execution.is_send_message
    /\ last_execution.starved
    /\ last_execution.cause = "timeout"
    /\ long_term_limiter._rate = 0
    /\ handled # {}

\* C9: every True answer of _can_send_message has debited both buckets, so
\* a short-term bucket that never refills holds its capacity less one token
\* for each True answer.
C9_BothDebited ==
    (short_term_limiter.made /\ short_term_limiter._rate = 0) =>
        short_term_limiter._tokens =
            short_term_limiter._capacity - passes * TokenScale

\* C10: at most one thread is inside execute_action.
C10_SingleConsumer ==
    Cardinality({ t \in ThreadIds : InsideExecute(t) }) <= 1

\* C11: an action enters execute_action only after every action put on the
\* queue before it has left execute_action: one at a time, in queue order.
C11_FifoOneAtATime ==
    \A t \in ThreadIds :
        InsideExecute(t) =>
            \A j \in 1 .. rthreads[t].task.id - 1 : executed[j] >= 1

\* the send actions that were passed to their handler: every True answer of
\* _can_send_message, less the threads that have not yet called the handler
Dispatched ==
    passes - Cardinality({ t \in ThreadIds :
                              /\ rthreads[t].pc = "handler"
                              /\ rthreads[t].task.is_send_message })

\* the calls of execute_action made for action id: those that returned and
\* those a thread is inside of
Calls(id) ==
    executed[id]
    + Cardinality({ t \in ThreadIds :
                      InsideExecute(t) /\ rthreads[t].task.id = id })

\* C39: every action put on the queue is passed to execute_action exactly
\* once: while it waits on the queue no call was made for it, once it is off
\* the queue exactly one call was made, and never more than one, also after
\* stop() and a further start() and after a handler that raised.
C39_ExecutedOnce ==
    \A id \in 1 .. MaxActions :
        /\ Calls(id) <= 1
        /\ Cardinality(Queued(id)) <= 1
        /\ Queued(id) # {} => Calls(id) = 0
        /\ (id <= next_action /\ Queued(id) = {}) => Calls(id) = 1

\* after stop() and a second start(), the handler of action 1 raised and
\* action 2 is inside execute_action; action 3 has been executed as well
C39_Witness ==
    /\ rthreads[2].pc # "unborn"
    /\ rpa_is_running
    /\ executed[1] = 1
    /\ 1 \in handled
    /\ last_execution.id = 1
    /\ last_execution.outcome = "raise"
    /\ Calls(2) = 1
    /\ executed[2] = 0

\* C30: a handler of a send action is invoked only after one token was
\* debited from each bucket for the action, so in each bucket the tokens
\* spent on the sends dispatched so far and the tokens it still holds are
\* together no more than the tokens it ever had: its capacity plus what its
\* rate can have refilled by now.
C30_TokensCoverSends ==
    /\ short_term_limiter.made =>
          Dispatched * TokenScale + short_term_limiter._tokens
              <= short_term_limiter._capacity + short_term_limiter._rate * now
    /\ long_term_limiter.made =>
          Dispatched * TokenScale + long_term_limiter._tokens
              <= long_term_limiter._capacity + long_term_limiter._rate * now

\* the steps of thread t, which holds an action that is not a send
NonSendStep(t) ==
    /\ rthreads[t].task # NoAction
    /\ ~rthreads[t].task.is_send_message
    /\ rthreads'[t] # rthreads[t]

\* C19: an action that is not a send goes from the handler lookup straight
\* to its handler, makes no _can_send_message call, leaves both buckets as
\* they are, and execute_action returns what the handler returned.
C19_NonSendBypassesLimiter ==
    /\ [](\A t \in ThreadIds :
            (rthreads[t].task # NoAction /\ ~rthreads[t].task.is_send_message)
                => rthreads[t].pc = "handler" /\ rthreads[t].polls = 0)
    /\ [][\A t \in ThreadIds :
             NonSendStep(t) =>
                 /\ short_term_limiter' = short_term_limiter
                 /\ long_term_limiter' = long_term_limiter
                 /\ passes' = passes
                 /\ last_execution'.id = rthreads[t].task.id
                 /\ last_execution'.cause = "handler"
                 /\ last_execution'.outcome \in {"True", "False"}
                       => last_execution'.result = (last_execution'.outcome = "True")]_vars

\* an action that is not a send ran its handler although a bucket was empty
\* for good when it was taken
C19_Witness ==
    /\ ~last_execution.is_send_message
    /\ last_execution.cause = "handler"
    /\ last_execution.starved
    /\ last_execution.result
    /\ passes > 0

\* C20: when the handler raises, execute_action returns False and no
\* exception leaves it; the worker thread goes on with its loop.
C20_HandlerErrorCaught ==
    /\ [](/\ ~last_execution.propagated
          /\ last_execution.outcome = "raise" =>
                /\ last_execution.result = FALSE
                /\ last_execution.cause = "handler"
                /\ last_execution.id \in handled)
    /\ [][\A t \in ThreadIds :
             (rthreads[t].pc = "handler" /\ rthreads'[t] # rthreads[t]
                 /\ last_execution'.outcome = "raise")
             => /\ rthreads'[t].pc = "loop"
                /\ last_execution'.id = rthreads[t].task.id
                /\ last_execution'.result = FALSE
                /\ ~last_execution'.propagated]_vars

\* a handler has raised and the worker thread has taken the next action
C20_Witness ==
    /\ last_execution.outcome = "raise"
    /\ \E t \in ThreadIds :
          /\ InsideExecute(t)
          /\ rthreads[t].task.id > last_execution.id

\* C21: an action whose type has no registered handler is dropped at once:
\* execute_action returns False, no handler runs for it, no
\* _can_send_message call is made and both buckets stay as they are, also
\* when the action is a communication action.
C21_UnregisteredDropped ==
    /\ [](/\ \A t \in ThreadIds :
                InsideExecute(t) => rthreads[t].task.action_type \in action_handlers
          /\ last_execution.cause = "unregistered" =>
                /\ last_execution.result = FALSE
                /\ last_execution.id \notin handled
                /\ Queued(last_execution.id) = {}
                /\ Holders(last_execution.id) = {})
    /\ [][\A t \in ThreadIds :
             (rthreads[t].pc = "get" /\ task_queue # << >>
                 /\ Head(task_queue).action_type \notin action_handlers
                 /\ rthreads'[t] # rthreads[t])
             => /\ rthreads'[t].pc = "loop"
                /\ last_execution'.id = Head(task_queue).id
                /\ last_execution'.cause = "unregistered"
                /\ short_term_limiter' = short_term_limiter
                /\ long_term_limiter' = long_term_limiter
                /\ passes' = passes
                /\ handled' = handled]_vars

\* a communication action without a handler was dropped and the thread has
\* taken the next action
C21_Witness ==
    /\ last_execution.cause = "unregistered"
    /\ last_execution.is_send_message
    /\ \E t \in ThreadIds :
          InsideExecute(t) /\ rthreads[t].task.id > last_execution.id

\* what execute_action returns when the handler fails: it returned False or
\* it raised
ActuatorFailures == { handler_call(outcome).result : outcome \in {"False", "raise"} }

\* C22: what execute_action returns to its caller after a rate-limit
\* timeout differs from everything it returns after an actuator failure.
C22_TimeoutDistinguishable ==
    last_execution.cause = "timeout" =>
        last_execution.result \notin ActuatorFailures

----------------------------------------------------------------------------
(* The producers of the action queue: add_rpa_actions and the MQTT service *)

NoHolder == "none"

\* the threads that call add_rpa_actions: the runner's event loop, with the
\* responses of one evaluation, and a thread of a plugin
Callers == {"loop", "plugin"}

\* lists: the lengths of the action lists still to hand over; r: the list at
\* hand; i: the action of that list to put next
IdleProducer == [pc |-> "idle", lists |-> << >>, r |-> 0, i |-> 0]

\* what one evaluation returns: the number of actions of each response
ResponseLists ==
    UNION { [1 .. n -> 0 .. MaxBatch] : n \in 0 .. MaxResponses }

\* an action on the queue is known by who put it: producer, call and position
QueuedAction(p, call, pos) == [producer |-> p, call |-> call, pos |-> pos]

InitBatch ==
    /\ rpa_queue_lock = NoHolder
    /\ producers = [p \in Callers |-> IdleProducer]
    /\ rpa_task_queue = << >>

\* responses = await process_message(...); for response in responses:
HandleResult(responses) ==
    /\ UNCHANGED notQ
    /\ producers["loop"].pc = "idle"
    /\ producers' = [producers EXCEPT
                        !["loop"] = [pc |-> "next", lists |-> responses,
                                     r |-> 1, i |-> 0]]
    /\ UNCHANGED << rpa_queue_lock, rpa_task_queue >>

\* Plugin.add_rpa_actions(actions), or add_rpa_action(action) with a list of
\* one, called on a thread of the plugin
PluginCall(n) ==
    /\ UNCHANGED notQ
    /\ producers["plugin"].pc = "idle"
    /\ producers' = [producers EXCEPT
                        !["plugin"] = [pc |-> "next", lists |-> << n >>,
                                       r |-> 1, i |-> 0]]
    /\ UNCHANGED << rpa_queue_lock, rpa_task_queue >>

\* if not actions: return (and "if response.actions:" in the runner)
is_empty(n) == n = 0

\* the next list of the caller: an empty one is passed over
NextCall(p) ==
    /\ UNCHANGED notQ
    /\ producers[p].pc = "next"
    /\ LET pr == producers[p]
       IN  producers' = [producers EXCEPT ![p] =
               IF pr.r > Len(pr.lists) THEN [pr EXCEPT !.pc = "done"]
               ELSE IF is_empty(pr.lists[pr.r]) THEN [pr EXCEPT !.r = @ + 1]
               ELSE [pr EXCEPT !.pc = "acquire"]]
    /\ UNCHANGED << rpa_queue_lock, rpa_task_queue >>

\* a lock that lets everybody in
LockIgnored(lock) == TRUE

\* threading.Lock: acquire succeeds when nobody holds the lock
lock_free(lock) == lock = NoHolder

\* with self.rpa_queue_lock:
Acquire(p) ==
    /\ UNCHANGED notQ
    /\ producers[p].pc = "acquire"
    /\ lock_free(rpa_queue_lock)
    /\ rpa_queue_lock' = p
    /\ producers' = [producers EXCEPT ![p].pc = "put", ![p].i = 1]
    /\ UNCHANGED rpa_task_queue

\* for action in actions: self.rpa_task_queue.put(action)
Put(p) ==
    /\ UNCHANGED notQ
    /\ producers[p].pc = "put"
    /\ producers[p].i <= producers[p].lists[producers[p].r]
    /\ rpa_task_queue' = Append(rpa_task_queue,
                                QueuedAction(p, producers[p].r, producers[p].i))
    /\ producers' = [producers EXCEPT ![p].i = @ + 1]
    /\ UNCHANGED rpa_queue_lock

\* the end of the with block releases the lock
Release(p) ==
    /\ UNCHANGED notQ
    /\ producers[p].pc = "put"
    /\ producers[p].i > producers[p].lists[producers[p].r]
    /\ rpa_queue_lock' = NoHolder
    /\ producers' = [producers EXCEPT ![p].pc = "next", ![p].r = @ + 1,
                                      ![p].i = 0]
    /\ UNCHANGED rpa_task_queue

MqttPuts == { x \in 1 .. Len(rpa_task_queue) : rpa_task_queue[x].producer = "mqtt" }

\* MQTTService._handle_message_async: self.rpa_task_queue.put(action), on the
\* thread of the MQTT client and without rpa_queue_lock
MqttPut ==
    /\ UNCHANGED notQ
    /\ Cardinality(MqttPuts) < MaxMqtt
    /\ rpa_task_queue' = Append(rpa_task_queue,
                                QueuedAction("mqtt", Cardinality(MqttPuts) + 1, 1))
    /\ UNCHANGED << rpa_queue_lock, producers >>

NextBatch ==
    \/ \E responses \in ResponseLists : HandleResult(responses)
    \/ \E n \in 0 .. MaxBatch : PluginCall(n)
    \/ \E p \in Callers : NextCall(p)
    \/ \E p \in Callers : Acquire(p)
    \/ \E p \in Callers : Put(p)
    \/ \E p \in Callers : Release(p)
    \/ MqttPut

----------------------------------------------------------------------------
(* Claims about the producers of the action queue (specification SpecBatch) *)

SameCall(a, b) == a.producer = b.producer /\ a.call = b.call

PutsOf(p, call) ==
    { x \in 1 .. Len(rpa_task_queue) :
        rpa_task_queue[x].producer = p /\ rpa_task_queue[x].call = call }

\* C17: the actions of all the responses of one evaluation lie next to each
\* other on the queue, with no action of another producer between them.
C17_EvaluationContiguous ==
    \A x, y \in 1 .. Len(rpa_task_queue) :
        (x < y /\ rpa_task_queue[x].producer = "loop"
               /\ rpa_task_queue[y].producer = "loop")
        => \A z \in x .. y : rpa_task_queue[z].producer = "loop"

\* C18: of the actions put by concurrent add_rpa_actions calls, those of one
\* call are in list order with no action of another call between them; a
\* finished call has put every action of its list, an empty list nothing.
C18_BatchEnqueue ==
    /\ \A x, y \in 1 .. Len(rpa_task_queue) :
          (x < y /\ rpa_task_queue[x].producer \in Callers
                 /\ SameCall(rpa_task_queue[x], rpa_task_queue[y]))
          => /\ rpa_task_queue[x].pos < rpa_task_queue[y].pos
             /\ \A z \in x .. y :
                   rpa_task_queue[z].producer \in Callers
                       => SameCall(rpa_task_queue[z], rpa_task_queue[x])
    /\ \A p \in Callers :
          \A call \in 1 .. Len(producers[p].lists) :
              /\ Cardinality(PutsOf(p, call)) <= producers[p].lists[call]
              /\ call < producers[p].r
                    => Cardinality(PutsOf(p, call)) = producers[p].lists[call]

\* the event loop is in the middle of the list of its second response, the
\* first one was empty, and the plugin thread waits for the lock
C18_Witness ==
    /\ producers["loop"].pc = "put"
    /\ producers["loop"].r = 2
    /\ producers["loop"].lists[1] = 0
    /\ producers["loop"].lists[2] = MaxBatch
    /\ producers["loop"].i = MaxBatch
    /\ producers["plugin"].pc = "acquire"
    /\ PutsOf("loop", 1) = {}

----------------------------------------------------------------------------
(* DatDecryptService: decrypt callbacks. Every body below runs under
   _callback_lock from its first to its last statement, so each is one step;
   the one step outside the lock is the timer thread passing its cancel
   check. *)

Filenames == {"a.dat", "b.dat"}

Callbacks == {"fn1", "fn2"}

None == << "None" >>

\* the path the decryption of a file produces
DecryptedPath(filename) == << "decrypted", filename >>

InitDecrypt ==
    /\ _recent_decrypts = << >>
    /\ _decrypt_callbacks = [f \in {} |-> << >>]
    /\ registrations = << >>
    /\ callback_calls = << >>

\* _invoke_callback: callback(filename, path), or the coroutine scheduled on
\* the loop; whatever the callback raises is logged here
_invoke_callback(calls, callback, filename, path) ==
    Append(calls, [filename |-> filename, callback |-> callback, path |-> path])

\* deque.append with maxlen: the oldest entry falls out of a full deque
DequeAppend(deque, entry) ==
    IF Len(deque) = recent_maxlen
    THEN Append(Tail(deque), entry)
    ELSE Append(deque, entry)

\* threading.Timer.cancel: sets the finished event, which a timer thread that
\* has already passed its check does not look at again
cancel(timer) == IF timer = "started" THEN "cancelled" ELSE timer

\* register_decrypt_callback(filename, callback)
register_decrypt_callback(filename, callback) ==
    /\ UNCHANGED notK
    /\ Len(registrations) < MaxRegistrations
    /\ LET found == { i \in DOMAIN _recent_decrypts :
                          _recent_decrypts[i].fname = filename }
           id == Len(registrations) + 1
       IN  IF found # {}
           THEN \* for fname, path in self._recent_decrypts: ... return
                LET first == CHOOSE i \in found : \A j \in found : i <= j
                IN  /\ callback_calls' =
                           _invoke_callback(callback_calls, callback,
                               _recent_decrypts[first].fname,
                               _recent_decrypts[first].path)
                    /\ registrations' = Append(registrations,
                           [filename |-> filename, callback |-> callback,
                            timer |-> "none"])
                    /\ UNCHANGED _decrypt_callbacks
           ELSE \* timer = threading.Timer(60, timeout_callback); timer.start()
                \* self._decrypt_callbacks.setdefault(filename, []).append(...)
                /\ registrations' = Append(registrations,
                       [filename |-> filename, callback |-> callback,
                        timer |-> "started"])
                /\ _decrypt_callbacks' =
                       [f \in DOMAIN _decrypt_callbacks \cup {filename} |->
                           IF f = filename
                           THEN Append(IF f \in DOMAIN _decrypt_callbacks
                                       THEN _decrypt_callbacks[f] ELSE << >>,
                                       [cb |-> callback, timer |-> id])
                           ELSE _decrypt_callbacks[f]]
                /\ UNCHANGED callback_calls
    /\ UNCHANGED _recent_decrypts

\* Timer.run: self.finished.wait(interval); if not self.finished.is_set():
\* the timer thread goes on to call timeout_callback
TimerExpire(id) ==
    /\ UNCHANGED notK
    /\ registrations[id].timer = "started"
    /\ registrations' = [registrations EXCEPT ![id].timer = "fired"]
    /\ UNCHANGED << _recent_decrypts, _decrypt_callbacks, callback_calls >>

\* timeout_callback of registration id, with its filename and callback
timeout_callback(id) ==
    /\ UNCHANGED notK
    /\ registrations[id].timer = "fired"
    /\ registrations' = [registrations EXCEPT ![id].timer = "done"]
    /\ LET filename == registrations[id].filename
           callback == registrations[id].callback
       IN  IF filename \in DOMAIN _decrypt_callbacks
           THEN LET kept == SelectSeq(_decrypt_callbacks[filename],
                                      LAMBDA c : c.cb # callback)
                IN  /\ callback_calls' =
                           _invoke_callback(callback_calls, callback,
                                            filename, None)
                    /\ _decrypt_callbacks' =
                           IF kept = << >>
                           THEN [f \in DOMAIN _decrypt_callbacks \ {filename}
                                    |-> _decrypt_callbacks[f]]
                           ELSE [_decrypt_callbacks EXCEPT ![filename] = kept]
           ELSE UNCHANGED << callback_calls, _decrypt_callbacks >>
    /\ UNCHANGED _recent_decrypts

\* the callbacks waiting for a file are invoked in the order of the list
RECURSIVE InvokeAll(_, _, _, _)
InvokeAll(calls, waiting, filename, path) ==
    IF waiting = << >> THEN calls
    ELSE InvokeAll(_invoke_callback(calls, Head(waiting).cb, filename, path),
                   Tail(waiting), filename, path)

\* _on_decrypt_success(filename, path)
_on_decrypt_success(filename) ==
    /\ UNCHANGED notK
    /\ Len(_recent_decrypts) < MaxDecrypts
    /\ _recent_decrypts' =
           DequeAppend(_recent_decrypts,
                       [fname |-> filename, path |-> DecryptedPath(filename)])
    /\ IF filename \in DOMAIN _decrypt_callbacks
       THEN LET waiting == _decrypt_callbacks[filename]
                ids == { waiting[i].timer : i \in DOMAIN waiting }
            IN  /\ registrations' =
                       [id \in DOMAIN registrations |->
                           IF id \in ids
                           THEN [registrations[id] EXCEPT !.timer = cancel(@)]
                           ELSE registrations[id]]
                /\ callback_calls' =
                       InvokeAll(callback_calls, waiting, filename,
                                 DecryptedPath(filename))
                /\ _decrypt_callbacks' =
                       [f \in DOMAIN _decrypt_callbacks \ {filename}
                           |-> _decrypt_callbacks[f]]
       ELSE UNCHANGED << registrations, callback_calls, _decrypt_callbacks >>

NextDecrypt ==
    \/ \E filename \in Filenames, callback \in Callbacks :
           register_decrypt_callback(filename, callback)
    \/ \E id \in DOMAIN registrations : TimerExpire(id)
    \/ \E id \in DOMAIN registrations : timeout_callback(id)
    \/ \E filename \in Filenames : _on_decrypt_success(filename)

\* the registrations made, the registrations whose timer is still to run, and
\* the invocations made, of one callback for one file
Registered(filename, callback) ==
    { id \in DOMAIN registrations :
          /\ registrations[id].filename = filename
          /\ registrations[id].callback = callback }

Pending(filename, callback) ==
    { id \in Registered(filename, callback) :
          registrations[id].timer \in {"started", "fired"} }

Invocations(filename, callback) ==
    { i \in DOMAIN callback_calls :
          /\ callback_calls[i].filename = filename
          /\ callback_calls[i].callback = callback }

\* C28: every registration of a callback for a file leads to exactly one
\* invocation of the callback: a callback is never invoked more often than
\* it was registered for the file, and once none of its registrations for
\* the file has a timer still to run it has been invoked once for each of
\* them.
C28_ExactlyOnce ==
    \A filename \in Filenames, callback \in Callbacks :
        /\ Cardinality(Invocations(filename, callback))
               <= Cardinality(Registered(filename, callback))
        /\ Pending(filename, callback) = {}
               => Cardinality(Invocations(filename, callback))
                      = Cardinality(Registered(filename, callback))

----------------------------------------------------------------------------
(* Bot: setup, start, the signal handler and teardown *)

\* Bot._components, in list order, those with a start or a stop method
Components ==
    << [name |-> "message_service", start |-> TRUE, stop |-> TRUE],
       [name |-> "processor_service", start |-> TRUE, stop |-> TRUE],
       [name |-> "rpa_service", start |-> TRUE, stop |-> TRUE],
       [name |-> "dat_decrypt_service", start |-> FALSE, stop |-> TRUE] >>

Signals == {"SIGINT", "SIGTERM"}

\* a stop() call returns or raises
StopOutcomes == {"return", "raise"}

NoTeardown == [pc |-> "idle", idx |-> 0, caller |-> "", calls |-> 0]

\* __init__: is_running = False, _status = None; mcp_app is not assigned
InitBot ==
    /\ bot = [is_running |-> FALSE, _status |-> "None", mcp_app |-> FALSE,
              handlers |-> FALSE, by |-> "", main |-> "new",
              signalled |-> "", td |-> NoTeardown]
    /\ component_calls = << >>

\* for component in self._components: if hasattr(component, "start"): start()
RECURSIVE StartAll(_, _)
StartAll(calls, components) ==
    IF components = << >> THEN calls
    ELSE StartAll(IF Head(components).start
                  THEN Append(calls, [op |-> "start",
                                      component |-> Head(components).name,
                                      outcome |-> "return"])
                  ELSE calls,
                  Tail(components))

\* Bot.setup, every component coming up: STARTING, the components are
\* started in list order, is_running = True, RUNNING
setup(b) == [b EXCEPT !.is_running = TRUE, !._status = "running"]

\* setup() called on its own: start() is not used and mcp_app never assigned
BotSetup ==
    /\ UNCHANGED notO
    /\ bot.main = "new"
    /\ component_calls' = StartAll(component_calls, Components)
    /\ bot' = [setup(bot) EXCEPT !.by = "setup", !.main = "setup_returned"]

\* Bot.start on the main thread: the signal handlers are installed, setup(),
\* self.mcp_app = create_app(...), and mcp_app.run blocks
BotStart ==
    /\ UNCHANGED notO
    /\ bot.main = "new"
    /\ component_calls' = StartAll(component_calls, Components)
    /\ bot' = [setup(bot) EXCEPT !.handlers = TRUE, !.mcp_app = TRUE,
                                 !.by = "start", !.main = "serving"]

\* _signal_handler: if self.is_running: self.is_running = False
_signal_handler(b, sig) ==
    IF b.is_running
    THEN [b EXCEPT !.is_running = FALSE, !.signalled = sig]
    ELSE b

\* SIGINT or SIGTERM arrives while start() is inside mcp_app.run
Signal(sig) ==
    /\ UNCHANGED notO
    /\ bot.handlers
    /\ bot.main = "serving"
    /\ bot' = _signal_handler(bot, sig)
    /\ UNCHANGED component_calls

\* mcp_app.run returns, or raises and start() notifies FAILED; then finally:
ServeEnds(outcome) ==
    /\ UNCHANGED notO
    /\ bot.main = "serving"
    /\ bot.td.pc \in {"idle", "returned", "raised"}
    /\ bot' = [bot EXCEPT !.main = "finally",
                          !._status = IF outcome = "raise" THEN "failed" ELSE @]
    /\ UNCHANGED component_calls

\* what the caller of teardown() goes on with when the call is over
AfterTeardown(b) ==
    IF b.td.caller = "finally" THEN [b EXCEPT !.main = "returned"] ELSE b

\* teardown(): if not self.is_running: return; otherwise STOPPING and the
\* loop over reversed(self._components).  Called by the finally of start(),
\* or by exit() or the embedding program while the bot is up.
TeardownBegin(caller) ==
    /\ UNCHANGED notO
    /\ bot.td.pc \in {"idle", "returned", "raised"}
    /\ bot.td.calls < MaxTeardowns
    /\ IF caller = "finally"
       THEN bot.main = "finally"
       ELSE bot.main \in {"setup_returned", "serving"}
    /\ LET td == [pc |-> "loop", idx |-> Len(Components), caller |-> caller,
                  calls |-> bot.td.calls + 1]
       IN  bot' = IF ~bot.is_running
                  THEN AfterTeardown([bot EXCEPT !.td =
                                         [td EXCEPT !.pc = "returned"]])
                  ELSE [bot EXCEPT !._status = "stopping", !.td = td]
    /\ UNCHANGED component_calls

\* try: component.stop() except Exception: logger.error(...)
TeardownStop(outcome) ==
    /\ UNCHANGED notO
    /\ bot.td.pc = "loop"
    /\ LET component == Components[bot.td.idx]
       IN  component_calls' =
               IF component.stop
               THEN Append(component_calls,
                           [op |-> "stop", component |-> component.name,
                            outcome |-> outcome])
               ELSE component_calls
    /\ bot' = [bot EXCEPT !.td.idx = @ - 1,
                          !.td.pc = IF bot.td.idx = 1 THEN "mcp" ELSE "loop"]

\* if self.mcp_app: raises AttributeError when start() never assigned it;
\* otherwise is_running = False and STOPPED is notified
teardown_end(b) ==
    IF b.mcp_app
    THEN [b EXCEPT !.is_running = FALSE, !._status = "stopped",
                   !.td.pc = "returned"]
    ELSE [b EXCEPT !.td.pc = "raised"]

TeardownEnd ==
    /\ UNCHANGED notO
    /\ bot.td.pc = "mcp"
    /\ bot' = AfterTeardown(teardown_end(bot))
    /\ UNCHANGED component_calls

NextBot ==
    \/ BotSetup
    \/ BotStart
    \/ \E sig \in Signals : Signal(sig)
    \/ \E outcome \in StopOutcomes : ServeEnds(outcome)
    \/ \E caller \in {"finally", "api"} : TeardownBegin(caller)
    \/ \E outcome \in StopOutcomes : TeardownStop(outcome)
    \/ TeardownEnd

\* the components on which start() was called, in the order of the calls,
\* and those on which stop() was called
StartedNames ==
    SelectSeq([i \in DOMAIN component_calls |-> component_calls[i]],
              LAMBDA c : c.op = "start")

StoppedNames ==
    SelectSeq([i \in DOMAIN component_calls |-> component_calls[i]],
              LAMBDA c : c.op = "stop")

\* every started component was stopped, in the reverse of the start order
StoppedInReverse ==
    /\ \A i \in DOMAIN StartedNames :
          \E k \in DOMAIN StoppedNames :
              StoppedNames[k].component = StartedNames[i].component
    /\ \A i, j \in DOMAIN StartedNames :
          i < j =>
              \A k, l \in DOMAIN StoppedNames :
                  (/\ StoppedNames[k].component = StartedNames[i].component
                   /\ StoppedNames[l].component = StartedNames[j].component)
                      => l < k

\* C33: when the first teardown() call on a running bot is over (and
\* mcp_app.run has not ended since), stop() was
\* called on every component in the reverse of the start order, whatever the
\* stop() calls raised, is_running is False and STOPPED was notified; the
\* bot may have been brought up by start() or by setup() alone.
C33_TeardownStopsAll ==
    (/\ bot.td.calls = 1
     /\ bot.td.pc \in {"returned", "raised"}
     /\ bot.main # "finally"
     /\ bot.signalled = "")
        => /\ StoppedInReverse
           /\ ~bot.is_running
           /\ bot._status = "stopped"
           /\ bot.td.pc = "returned"

\* C34: when start() has returned after SIGINT or SIGTERM arrived while the
\* bot was running, stop() was called on every started component and the
\* status is STOPPED.
C34_SignalShutsDown ==
    (bot.signalled # "" /\ bot.main = "returned")
        => /\ StoppedInReverse
           /\ bot._status = "stopped"

----------------------------------------------------------------------------
(* Specifications *)

Init ==
    /\ InitDispatcher
    /\ InitChain
    /\ InitBucket
    /\ InitBatch
    /\ InitRpa
    /\ InitDecrypt
    /\ InitBot

Next == NextDispatcher

Spec == Init /\ [][Next]_vars

SpecRunner == Init /\ [][NextRunner]_vars

SpecBridge == Init /\ [][NextBridge]_vars

SpecReload == Init /\ [][NextReload]_vars

SpecBatch == Init /\ [][NextBatch]_vars

SpecChain == Init /\ [][NextChain]_vars

SpecBucket == Init /\ [][NextBucket]_vars

SpecExec == Init /\ [][NextExec]_vars

SpecRpa == Init /\ [][NextRpa]_vars

SpecDecrypt == Init /\ [][NextDecrypt]_vars

SpecBot == Init /\ [][NextBot]_vars

\* the dispatcher thread and the pool thread are scheduled again and again
SpecStarve ==
    /\ Init
    /\ [][NextStarve]_vars
    /\ WF_vars(Start)
    /\ WF_vars(DispatcherStep)
    /\ WF_vars(WorkerStep(1))

====
